---- MODULE Spec2Model ----
(***************************************************************************)
(* The CSV -> H3 augmentation job of csv-h3-tool.                          *)
(*                                                                         *)
(* One job is one call of Orchestrator.ProcessFile: configuration          *)
(* validation, pre-validation of the CSV structure, then the streaming     *)
(* loop of StreamingProcessor.ProcessStream (read -> validate/generate ->  *)
(* record handler), the final Flush and the deferred Close calls.          *)
(*                                                                         *)
(* Unless a specification says otherwise, the input path and the output   *)
(* path name two different files, the directory of the output exists and   *)
(* can be written, and nothing else touches the two files while the job    *)
(* runs.                                                                   *)
(*                                                                         *)
(* Besides Spec, the job of the Orchestrator, the module holds             *)
(*   SpecProcessor  the job as StreamingProcessor.ProcessFile runs it on   *)
(*                  its own;                                               *)
(*   SpecClosing    the job of the Orchestrator with a caller that closes  *)
(*                  the input handle;                                      *)
(*   SpecResolve    NewReader by itself;                                   *)
(*   SpecValidate   ReadRecord and ValidateCoordinates on one row;         *)
(*   SpecDelimiter  one line through the csv reader and the csv writer;    *)
(*   SpecAlias      the job whose output path is its input path;           *)
(*   SpecVerbosity  the job run twice, verbose and not;                    *)
(*   SpecJobs       two jobs side by side.                                 *)
(*                                                                         *)
(* A file is a sequence of raw rows as encoding/csv hands them out: a raw  *)
(* row either parses into a sequence of fields or is a csv.ParseError.     *)
(* Strings are TLA+ strings; the string functions of the Go standard       *)
(* library are tabulated on the literals that occur in the model.          *)
(* Floating point values are records, so that NaN and the infinities can   *)
(* be told apart from ordinary numbers.                                    *)
(***************************************************************************)
EXTENDS Integers, Sequences, FiniteSets, TLC

\* The longest input has MaxRows data rows (the header row not counted).
MaxRows == 2

\* The reads of a closed file that are followed: the errorCount of
\* ProcessStream grows with every one of them.
MaxFailedReads == 2

-----------------------------------------------------------------------------
(* float64 values *)

Num(v) == [kind |-> "num", v |-> v]
NaN == [kind |-> "nan", v |-> 0]
PosInf == [kind |-> "+inf", v |-> 0]
NegInf == [kind |-> "-inf", v |-> 0]

\* a < n and a > n for a float64 a and an ordinary number n (IEEE 754: every
\* comparison with NaN is false)
FloatLess(a, n) ==
    CASE a.kind = "num" -> a.v < n
      [] a.kind = "-inf" -> TRUE
      [] OTHER -> FALSE

FloatGreater(a, n) ==
    CASE a.kind = "num" -> a.v > n
      [] a.kind = "+inf" -> TRUE
      [] OTHER -> FALSE

-----------------------------------------------------------------------------
(* Go standard library string functions. A string is taken apart with Len  *)
(* and SubSeq. The strings of this module are ASCII: a character is one     *)
(* byte and one rune, Len is the len of Go, and case folding and white      *)
(* space are those of unicode on the ASCII characters.                      *)

\* the character of s at position i
charAt(s, i) == SubSeq(s, i, i)

\* the vertical tab, U+000B ('\v' in Go)
VT == ""

\* unicode.White_Space, its ASCII characters: '\t', '\n', '\v', '\f', '\r'
\* and ' ' (U+0009 to U+000D, U+0020)
White_Space == {"\t", "\n", VT, "\f", "\r", " "}

\* unicode.IsSpace
isSpace(c) == c \in White_Space

RECURSIVE trimLeft(_)
\* the string without the white space it starts with
trimLeft(s) ==
    IF Len(s) > 0 /\ isSpace(charAt(s, 1))
    THEN trimLeft(SubSeq(s, 2, Len(s)))
    ELSE s

RECURSIVE trimRight(_)
\* the string without the white space it ends with
trimRight(s) ==
    IF Len(s) > 0 /\ isSpace(charAt(s, Len(s)))
    THEN trimRight(SubSeq(s, 1, Len(s) - 1))
    ELSE s

\* strings.TrimSpace
TrimSpace(s) == trimRight(trimLeft(s))

\* the lower case letter of every upper case letter
lowerCase ==
    "A" :> "a" @@ "B" :> "b" @@ "C" :> "c" @@ "D" :> "d" @@ "E" :> "e" @@
    "F" :> "f" @@ "G" :> "g" @@ "H" :> "h" @@ "I" :> "i" @@ "J" :> "j" @@
    "K" :> "k" @@ "L" :> "l" @@ "M" :> "m" @@ "N" :> "n" @@ "O" :> "o" @@
    "P" :> "p" @@ "Q" :> "q" @@ "R" :> "r" @@ "S" :> "s" @@ "T" :> "t" @@
    "U" :> "u" @@ "V" :> "v" @@ "W" :> "w" @@ "X" :> "x" @@ "Y" :> "y" @@
    "Z" :> "z"

\* unicode.ToLower
toLowerChar(c) == IF c \in DOMAIN lowerCase THEN lowerCase[c] ELSE c

RECURSIVE ToLower(_)
\* strings.ToLower
ToLower(s) ==
    IF Len(s) = 0 THEN ""
    ELSE toLowerChar(charAt(s, 1)) \o ToLower(SubSeq(s, 2, Len(s)))

\* strings.EqualFold: equality under simple case folding, character by
\* character
EqualFold(a, b) ==
    /\ Len(a) = Len(b)
    /\ \A i \in 1..Len(a) : toLowerChar(charAt(a, i)) = toLowerChar(charAt(b, i))

\* the value of a decimal digit, -1 for any other character
digitValue(c) ==
    CASE c = "0" -> 0
      [] c = "1" -> 1
      [] c = "2" -> 2
      [] c = "3" -> 3
      [] c = "4" -> 4
      [] c = "5" -> 5
      [] c = "6" -> 6
      [] c = "7" -> 7
      [] c = "8" -> 8
      [] c = "9" -> 9
      [] OTHER -> -1

RECURSIVE digitsValue(_, _)
\* the number a string of digits stands for, after the digits of acc
digitsValue(digits, acc) ==
    IF Len(digits) = 0 THEN acc
    ELSE digitsValue(SubSeq(digits, 2, Len(digits)),
                     10 * acc + digitValue(charAt(digits, 1)))

\* at least one character, and decimal digits only
isDigits(digits) ==
    /\ Len(digits) > 0
    /\ \A i \in 1..Len(digits) : digitValue(charAt(digits, i)) >= 0

RECURSIVE significant(_)
\* a string of digits without the zeros it starts with
significant(digits) ==
    IF Len(digits) > 0 /\ charAt(digits, 1) = "0"
    THEN significant(SubSeq(digits, 2, Len(digits)))
    ELSE digits

\* the digits of the largest int (1<<63 - 1) and of the smallest (-1<<63)
MaxIntDigits == "9223372036854775807"
MinIntDigits == "9223372036854775808"

\* digits (without leading zeros) stand for a number above that of limit
exceeds(digits, limit) ==
    \/ Len(digits) > Len(limit)
    \/ /\ Len(digits) = Len(limit)
       /\ \E i \in 1..Len(digits) :
             /\ \A j \in 1..(i - 1) : charAt(digits, j) = charAt(limit, j)
             /\ digitValue(charAt(digits, i)) > digitValue(charAt(limit, i))

\* Atoi of a string whose characters after the sign are digits:
\* strconv.ErrSyntax when they are not digits, all of them and at least one;
\* strconv.ErrRange when the number is outside the range of int
atoiDigits(digits, negative) ==
    IF ~isDigits(digits) THEN [ok |-> FALSE, v |-> 0]
    ELSE IF exceeds(significant(digits),
                    IF negative THEN MinIntDigits ELSE MaxIntDigits)
    THEN [ok |-> FALSE, v |-> 0]
    ELSE [ok |-> TRUE,
          v |-> IF negative THEN -digitsValue(digits, 0)
                ELSE digitsValue(digits, 0)]

\* strconv.Atoi: [ok, v]; a sign, then decimal digits and at least one, for
\* a number in the range of int (64 bits). v is the number when ok; the
\* value Atoi returns beside an error is left out ([ok |-> FALSE, v |-> 0]),
\* no caller reads it. The integers of the model end at 2^31 - 1: a number
\* of the range of int above that is not computed.
Atoi(s) ==
    atoiDigits(IF Len(s) > 0 /\ charAt(s, 1) \in {"+", "-"}
               THEN SubSeq(s, 2, Len(s)) ELSE s,
               Len(s) > 0 /\ charAt(s, 1) = "-")

\* strconv.ParseFloat(s, 64): [ok, f]
ParseFloat(s) ==
    CASE s = "0" -> [ok |-> TRUE, f |-> Num(0)]
      [] s = "1" -> [ok |-> TRUE, f |-> Num(1)]
      [] s = "01" -> [ok |-> TRUE, f |-> Num(1)]
      [] s = "2" -> [ok |-> TRUE, f |-> Num(2)]
      [] s = "5" -> [ok |-> TRUE, f |-> Num(5)]
      [] s = "40" -> [ok |-> TRUE, f |-> Num(40)]
      [] s = "-74" -> [ok |-> TRUE, f |-> Num(-74)]
      [] s = "90" -> [ok |-> TRUE, f |-> Num(90)]
      [] s = "-90" -> [ok |-> TRUE, f |-> Num(-90)]
      [] s = "91" -> [ok |-> TRUE, f |-> Num(91)]
      [] s = "-91" -> [ok |-> TRUE, f |-> Num(-91)]
      [] s = "180" -> [ok |-> TRUE, f |-> Num(180)]
      [] s = "-180" -> [ok |-> TRUE, f |-> Num(-180)]
      [] s = "181" -> [ok |-> TRUE, f |-> Num(181)]
      [] s = "-181" -> [ok |-> TRUE, f |-> Num(-181)]
      [] s = "1e1" -> [ok |-> TRUE, f |-> Num(10)]
      [] s = "NaN" -> [ok |-> TRUE, f |-> NaN]
      [] s = "Inf" -> [ok |-> TRUE, f |-> PosInf]
      [] s = "-Inf" -> [ok |-> TRUE, f |-> NegInf]
      [] OTHER -> [ok |-> FALSE, f |-> Num(0)]

Min(S) == CHOOSE m \in S : \A n \in S : m <= n

-----------------------------------------------------------------------------
(* Column resolution *)

LatFallbacks == <<"lat", "latitude", "y">>
LngFallbacks == <<"lng", "lon", "longitude", "x">>

\* the zero-based index of the least of the positions hits, or -1
leftmost(hits) == IF hits = {} THEN -1 ELSE Min(hits) - 1

\* the index found for the specified name or else the one found for a
\* fallback name
specifiedOrFallback(exact, fallback) == IF exact # -1 THEN exact ELSE fallback

\* the zero-based index of the leftmost header equal to name, or -1
firstHeader(headers, name) ==
    leftmost({i \in 1..Len(headers) : EqualFold(TrimSpace(headers[i]), name)})

\* findColumnByName whose fallback is the leftmost column that bears any of
\* the fallback names
findColumnByName_ColumnOrder(headers, specified, fallbacks) ==
    specifiedOrFallback(
        IF specified # "" THEN firstHeader(headers, TrimSpace(specified)) ELSE -1,
        leftmost({i \in 1..Len(headers) :
                     \E k \in 1..Len(fallbacks) :
                         EqualFold(TrimSpace(headers[i]), fallbacks[k])}))

\* the index of the first fallback name, of those at the positions found,
\* that a header bears
firstFallback(headers, fallbacks, found) ==
    IF found = {} THEN -1 ELSE firstHeader(headers, fallbacks[Min(found)])

\* Reader.findColumnByName
findColumnByName(headers, specified, fallbacks) ==
    specifiedOrFallback(
        IF specified # "" THEN firstHeader(headers, TrimSpace(specified)) ELSE -1,
        firstFallback(headers, fallbacks,
                      {k \in 1..Len(fallbacks) :
                          firstHeader(headers, fallbacks[k]) # -1}))

\* positionalIndex that takes any integer
positionalIndex_AnyInteger(spec, prev) ==
    LET a == Atoi(spec)
    IN  IF a.ok THEN a.v ELSE prev

\* the index a header-less specifier stands for; prev (the index the Reader
\* holds already) when it is no non-negative integer
positionalIndex(spec, prev) ==
    LET a == Atoi(spec)
    IN  IF a.ok /\ a.v >= 0 THEN a.v ELSE prev

\* the test of detectColumns, on the latitude index only
detected_LatOnly(lat, lng) ==
    [latIndex |-> lat, lngIndex |-> lng,
     err |-> IF lat = -1 THEN "latitude column not found" ELSE ""]

\* the test of detectColumns for the two indices it found
detected(lat, lng) ==
    [latIndex |-> lat, lngIndex |-> lng,
     err |-> IF lat = -1 THEN "latitude column not found"
             ELSE IF lng = -1 THEN "longitude column not found"
             ELSE ""]

\* detectColumns that checks the latitude index only
detectColumns_LatOnly(headers, hasHeaders, lat0, lng0, latColumn, lngColumn) ==
    detected_LatOnly(
        IF hasHeaders /\ Len(headers) > 0
        THEN findColumnByName(headers, latColumn, LatFallbacks)
        ELSE positionalIndex(latColumn, lat0),
        IF hasHeaders /\ Len(headers) > 0
        THEN findColumnByName(headers, lngColumn, LngFallbacks)
        ELSE positionalIndex(lngColumn, lng0))

\* Reader.detectColumns on a Reader whose indices are lat0 and lng0:
\* the indices it leaves in the Reader and the error it returns
detectColumns(headers, hasHeaders, lat0, lng0, latColumn, lngColumn) ==
    detected(
        IF hasHeaders /\ Len(headers) > 0
        THEN findColumnByName(headers, latColumn, LatFallbacks)
        ELSE positionalIndex(latColumn, lat0),
        IF hasHeaders /\ Len(headers) > 0
        THEN findColumnByName(headers, lngColumn, LngFallbacks)
        ELSE positionalIndex(lngColumn, lng0))

\* ValidateColumns (package csv): "" or the error
ValidateColumns(headers, hasHeaders, latColumn, lngColumn) ==
    IF ~hasHeaders
    THEN IF latColumn = "" \/ lngColumn = ""
         THEN "column specifications required"
         ELSE ""
    ELSE IF detectColumns(headers, TRUE, 0, 0, latColumn, lngColumn).err # ""
         THEN "column validation failed"
         ELSE ""

-----------------------------------------------------------------------------
(* Raw rows and files *)

\* the bytes of a row of fields in the file: the fields, the separators and
\* the line end
RowSize(fields) ==
    LET sum[i \in 0..Len(fields)] ==
            IF i = 0 THEN 0 ELSE sum[i - 1] + Len(fields[i]) + 1
    IN  sum[Len(fields)]

Row(fields) == [err |-> FALSE, fields |-> fields, size |-> RowSize(fields)]

\* a line encoding/csv rejects with a csv.ParseError (a bare quote: a"b)
BadRow == [err |-> TRUE, fields |-> <<>>, size |-> Len("a\"b") + 1]

\* csv.Reader.InputOffset after n raw rows were consumed
InputOffset(content, n) ==
    LET sum[i \in 0..n] == IF i = 0 THEN 0 ELSE sum[i - 1] + content[i].size
    IN  sum[n]

-----------------------------------------------------------------------------
(* Reader *)

NilRecord ==
    [OriginalData |-> <<>>, Latitude |-> Num(0), Longitude |-> Num(0),
     H3Index |-> "", LineNumber |-> 0, IsValid |-> FALSE]

\* buffered: the csv reader has read from the file, and bufio (4096 bytes)
\* holds all of it, every file here being shorter than that
NoReader ==
    [open |-> FALSE, headers |-> <<>>, hasHeaders |-> FALSE,
     latIndex |-> -1, lngIndex |-> -1, pos |-> 0, buffered |-> FALSE]

\* NewReader without the file.Close() of its two failure paths
NewReader_LeakOnFailure(exists, content, latColumn, lngColumn, hasHeaders) ==
    LET closed == NoReader
        headerOk == Len(content) > 0 /\ ~content[1].err
        headers == IF hasHeaders /\ headerOk THEN content[1].fields ELSE <<>>
        det == detectColumns(headers, hasHeaders, -1, -1, latColumn, lngColumn)
    IN  IF ~exists
        THEN [err |-> "failed to open file", reader |-> closed, rows |-> 0,
              file |-> "none"]
        ELSE IF hasHeaders /\ ~headerOk
        THEN [err |-> "failed to read headers", reader |-> closed, rows |-> 0,
              file |-> "open"]
        ELSE IF det.err # ""
        THEN [err |-> det.err, reader |-> closed,
              rows |-> IF hasHeaders THEN 1 ELSE 0, file |-> "open"]
        ELSE [err |-> "",
              reader |-> [open |-> TRUE, headers |-> headers,
                          hasHeaders |-> hasHeaders,
                          latIndex |-> det.latIndex, lngIndex |-> det.lngIndex,
                          pos |-> IF hasHeaders THEN 1 ELSE 0,
                          buffered |-> hasHeaders],
              rows |-> IF hasHeaders THEN 1 ELSE 0, file |-> "open"]

\* NewReader on a file that exists or not, with the given content:
\* [err, reader, rows, file] where rows is the number of rows it read (the
\* header) and file tells what became of the os.File: "none" when os.Open
\* failed, "closed" when NewReader closed it, "open" when the Reader holds it
NewReader(exists, content, latColumn, lngColumn, hasHeaders) ==
    LET closed == NoReader
        headerOk == Len(content) > 0 /\ ~content[1].err
        headers == IF hasHeaders /\ headerOk THEN content[1].fields ELSE <<>>
        det == detectColumns(headers, hasHeaders, -1, -1, latColumn, lngColumn)
    IN  IF ~exists
        THEN [err |-> "failed to open file", reader |-> closed, rows |-> 0,
              file |-> "none"]
        ELSE IF hasHeaders /\ ~headerOk
        THEN [err |-> "failed to read headers", reader |-> closed, rows |-> 0,
              file |-> "closed"]
        ELSE IF det.err # ""
        THEN [err |-> det.err, reader |-> closed,
              rows |-> IF hasHeaders THEN 1 ELSE 0, file |-> "closed"]
        ELSE [err |-> "",
              reader |-> [open |-> TRUE, headers |-> headers,
                          hasHeaders |-> hasHeaders,
                          latIndex |-> det.latIndex, lngIndex |-> det.lngIndex,
                          pos |-> IF hasHeaders THEN 1 ELSE 0,
                          buffered |-> hasHeaders],
              rows |-> IF hasHeaders THEN 1 ELSE 0, file |-> "open"]

\* the test of Reader.ReadRecord for a row too short for the two columns
insufficientColumns(n, latIndex, lngIndex) == n <= latIndex \/ n <= lngIndex

\* row[i] for a zero-based i
Field(row, i) == row[i + 1]

\* ReadRecord with an empty coordinate reported as a read error
ReadRecord_EmptyIsError(raw, latIndex, lngIndex, offset) ==
    IF raw.err
    THEN [err |-> "parse error", record |-> NilRecord]
    ELSE IF insufficientColumns(Len(raw.fields), latIndex, lngIndex)
    THEN [err |-> "row has insufficient columns", record |-> NilRecord]
    ELSE LET latStr == TrimSpace(Field(raw.fields, latIndex))
             lngStr == TrimSpace(Field(raw.fields, lngIndex))
             lat == ParseFloat(latStr)
             lng == ParseFloat(lngStr)
             record == [NilRecord EXCEPT !.OriginalData = raw.fields,
                                         !.LineNumber = offset]
         IN  IF latStr = "" \/ lngStr = ""
             THEN [err |-> "empty coordinate", record |-> NilRecord]
             ELSE IF ~lat.ok \/ ~lng.ok
             THEN [err |-> "", record |-> record]
             ELSE [err |-> "",
                   record |-> [record EXCEPT !.Latitude = lat.f,
                                             !.Longitude = lng.f,
                                             !.IsValid = TRUE]]

\* ReadRecord with a short row handed out as an invalid record
ReadRecord_ShortIsInvalid(raw, latIndex, lngIndex, offset) ==
    IF raw.err
    THEN [err |-> "parse error", record |-> NilRecord]
    ELSE IF insufficientColumns(Len(raw.fields), latIndex, lngIndex)
    THEN [err |-> "",
          record |-> [NilRecord EXCEPT !.OriginalData = raw.fields,
                                       !.LineNumber = offset]]
    ELSE LET latStr == TrimSpace(Field(raw.fields, latIndex))
             lngStr == TrimSpace(Field(raw.fields, lngIndex))
             lat == ParseFloat(latStr)
             lng == ParseFloat(lngStr)
             record == [NilRecord EXCEPT !.OriginalData = raw.fields,
                                         !.LineNumber = offset]
         IN  IF latStr = "" \/ lngStr = "" \/ ~lat.ok \/ ~lng.ok
             THEN [err |-> "", record |-> record]
             ELSE [err |-> "",
                   record |-> [record EXCEPT !.Latitude = lat.f,
                                             !.Longitude = lng.f,
                                             !.IsValid = TRUE]]

\* ReadRecord that marks a record valid whether its coordinates parsed or not
ReadRecord_UnparsedIsValid(raw, latIndex, lngIndex, offset) ==
    IF raw.err
    THEN [err |-> "parse error", record |-> NilRecord]
    ELSE IF insufficientColumns(Len(raw.fields), latIndex, lngIndex)
    THEN [err |-> "row has insufficient columns", record |-> NilRecord]
    ELSE LET latStr == TrimSpace(Field(raw.fields, latIndex))
             lngStr == TrimSpace(Field(raw.fields, lngIndex))
             lat == ParseFloat(latStr)
             lng == ParseFloat(lngStr)
             record == [NilRecord EXCEPT !.OriginalData = raw.fields,
                                         !.LineNumber = offset]
         IN  IF latStr = "" \/ lngStr = "" \/ ~lat.ok \/ ~lng.ok
             THEN [err |-> "", record |-> [record EXCEPT !.IsValid = TRUE]]
             ELSE [err |-> "",
                   record |-> [record EXCEPT !.Latitude = lat.f,
                                             !.Longitude = lng.f,
                                             !.IsValid = TRUE]]

\* Reader.ReadRecord on the raw row raw, the reader's offset being offset
\* after it: [err, record]
ReadRecord(raw, latIndex, lngIndex, offset) ==
    IF raw.err
    THEN [err |-> "parse error", record |-> NilRecord]
    ELSE IF insufficientColumns(Len(raw.fields), latIndex, lngIndex)
    THEN [err |-> "row has insufficient columns", record |-> NilRecord]
    ELSE LET latStr == TrimSpace(Field(raw.fields, latIndex))
             lngStr == TrimSpace(Field(raw.fields, lngIndex))
             lat == ParseFloat(latStr)
             lng == ParseFloat(lngStr)
             record == [NilRecord EXCEPT !.OriginalData = raw.fields,
                                         !.LineNumber = offset]
         IN  IF latStr = "" \/ lngStr = "" \/ ~lat.ok \/ ~lng.ok
             THEN [err |-> "", record |-> record]
             ELSE [err |-> "",
                   record |-> [record EXCEPT !.Latitude = lat.f,
                                             !.Longitude = lng.f,
                                             !.IsValid = TRUE]]

-----------------------------------------------------------------------------
(* Coordinate validator and index generator *)

\* ValidateCoordinates with the boundary values rejected
ValidateCoordinates_Exclusive(lat, lng) ==
    IF ~FloatGreater(lat, -90) \/ ~FloatLess(lat, 90) THEN "latitude"
    ELSE IF ~FloatGreater(lng, -180) \/ ~FloatLess(lng, 180) THEN "longitude"
    ELSE ""

\* CoordinateValidator.ValidateCoordinates: "" or the field out of range
ValidateCoordinates(lat, lng) ==
    IF FloatLess(lat, -90) \/ FloatGreater(lat, 90) THEN "latitude"
    ELSE IF FloatLess(lng, -180) \/ FloatGreater(lng, 180) THEN "longitude"
    ELSE ""

\* BaseGenerator.ValidateResolution and Config.validateResolution
ValidateResolution(resolution) == resolution >= 0 /\ resolution <= 15

\* h3.LatLngToCell followed by Cell.String: the library rejects coordinates
\* that are not finite; the token is a function of its three arguments
LatLngToCell(lat, lng, resolution) ==
    IF lat.kind # "num" \/ lng.kind # "num"
    THEN [err |-> "failed to generate H3 index", token |-> ""]
    ELSE [err |-> "",
          token |-> "h3r" \o ToString(resolution) \o "@" \o ToString(lat.v)
                        \o "," \o ToString(lng.v)]

\* H3Generator.Generate: [err, token]
Generate(lat, lng, resolution) ==
    IF ValidateCoordinates(lat, lng) # ""
    THEN [err |-> "coordinate validation failed", token |-> ""]
    ELSE IF ~ValidateResolution(resolution)
    THEN [err |-> "resolution validation failed", token |-> ""]
    ELSE LatLngToCell(lat, lng, resolution)

\* a StreamingProcessor as NewStreamingProcessor builds it: which of its two
\* components are not nil
Processors == [validator : BOOLEAN, h3Generator : BOOLEAN]

\* the StreamingProcessor of NewOrchestrator
OrchestratorProcessor == [validator |-> TRUE, h3Generator |-> TRUE]

\* processRecord without the record.IsValid = false of a failed generation
processRecord_KeepValidOnGenFailure(p, record, resolution) ==
    LET verr == IF p.validator /\ record.IsValid
                THEN ValidateCoordinates(record.Latitude, record.Longitude)
                ELSE ""
        gen == Generate(record.Latitude, record.Longitude, resolution)
    IN  IF ~record.IsValid
        THEN [record |-> record, valid |-> 0, errors |-> 1]
        ELSE IF verr # ""
        THEN [record |-> [record EXCEPT !.IsValid = FALSE], valid |-> 0, errors |-> 1]
        ELSE IF ~p.h3Generator
        THEN [record |-> record, valid |-> 0, errors |-> 0]
        ELSE IF gen.err # ""
        THEN [record |-> record, valid |-> 0, errors |-> 1]
        ELSE [record |-> [record EXCEPT !.H3Index = gen.token],
              valid |-> 1, errors |-> 0]

\* the body of the loop of ProcessStream between ReadRecord and the record
\* handler, for the StreamingProcessor p: the record as the handler receives
\* it, and the counters
processRecord(p, record, resolution) ==
    LET verr == IF p.validator /\ record.IsValid
                THEN ValidateCoordinates(record.Latitude, record.Longitude)
                ELSE ""
        afterValidate == IF verr # "" THEN [record EXCEPT !.IsValid = FALSE]
                         ELSE record
        gen == Generate(afterValidate.Latitude, afterValidate.Longitude, resolution)
    IN  IF ~record.IsValid
        THEN [record |-> record, valid |-> 0, errors |-> 1]
        ELSE IF ~afterValidate.IsValid
        THEN [record |-> afterValidate, valid |-> 0, errors |-> 1]
        ELSE IF ~p.h3Generator
        THEN [record |-> afterValidate, valid |-> 0, errors |-> 0]
        ELSE IF gen.err # ""
        THEN [record |-> [afterValidate EXCEPT !.IsValid = FALSE],
              valid |-> 0, errors |-> 1]
        ELSE [record |-> [afterValidate EXCEPT !.H3Index = gen.token],
              valid |-> 1, errors |-> 0]

-----------------------------------------------------------------------------
(* Writer *)

H3Column == "h3_index"

\* outputHeaders with the label put first
outputHeaders_LabelFirst(inputHeaders) == <<H3Column>> \o inputHeaders

\* the header row NewWriter prepares from the input headers
outputHeaders(inputHeaders) == Append(inputHeaders, H3Column)

\* outputRow that writes the fields without the space around them
outputRow_Trimmed(record) ==
    Append([i \in 1..Len(record.OriginalData) |-> TrimSpace(record.OriginalData[i])],
           IF record.IsValid /\ record.H3Index # "" THEN record.H3Index ELSE "")

\* the row Writer.WriteRecord hands to the csv writer
outputRow(record) ==
    Append(record.OriginalData,
           IF record.IsValid /\ record.H3Index # "" THEN record.H3Index ELSE "")

\* the test of NewWriter and of FileHandler.ValidateOutputFile for an
\* output path that is taken
outputConflict(exists, overwrite) == exists /\ ~overwrite

-----------------------------------------------------------------------------
(* Configuration *)

InputPath == "in.csv"
OutputPath == "out.csv"

\* the last position of the character c in s, 0 when there is none
lastIndex(s, c) ==
    LET at == {i \in 1..Len(s) : charAt(s, i) = c}
    IN  IF at = {} THEN 0 ELSE CHOOSE i \in at : \A j \in at : i >= j

RECURSIVE pathElements(_)
\* the elements of a path, which "/" separates
pathElements(path) ==
    LET at == {i \in 1..Len(path) : charAt(path, i) = "/"}
        cut == CHOOSE i \in at : \A j \in at : i <= j
    IN  IF at = {} THEN <<path>>
        ELSE <<SubSeq(path, 1, cut - 1)>>
             \o pathElements(SubSeq(path, cut + 1, Len(path)))

RECURSIVE cleanElements(_, _, _)
\* filepath.Clean on the elements still to come, kept being the elements
\* of the result so far: empty and "." elements go, ".." takes the element
\* before it with it, and goes itself at the root
cleanElements(elements, kept, rooted) ==
    IF elements = <<>> THEN kept
    ELSE LET e == Head(elements)
             rest == Tail(elements)
         IN  IF e = "" \/ e = "." THEN cleanElements(rest, kept, rooted)
             ELSE IF e # ".." THEN cleanElements(rest, Append(kept, e), rooted)
             ELSE IF kept # <<>> /\ kept[Len(kept)] # ".."
             THEN cleanElements(rest, SubSeq(kept, 1, Len(kept) - 1), rooted)
             ELSE IF rooted THEN cleanElements(rest, kept, rooted)
             ELSE cleanElements(rest, Append(kept, e), rooted)

RECURSIVE joinElements(_)
\* the elements with "/" between them
joinElements(elements) ==
    IF elements = <<>> THEN ""
    ELSE IF Len(elements) = 1 THEN elements[1]
    ELSE elements[1] \o "/" \o joinElements(Tail(elements))

\* filepath.Clean
Clean(path) ==
    LET rooted == Len(path) > 0 /\ charAt(path, 1) = "/"
        out == (IF rooted THEN "/" ELSE "")
               \o joinElements(cleanElements(pathElements(path), <<>>, rooted))
    IN  IF out = "" THEN "." ELSE out

\* filepath.Ext: from the last dot of the last element on
Ext(path) ==
    LET dot == lastIndex(path, ".")
    IN  IF dot > lastIndex(path, "/") THEN SubSeq(path, dot, Len(path)) ELSE ""

RECURSIVE trimSlashes(_)
\* the path without the slashes at its end
trimSlashes(path) ==
    IF Len(path) > 0 /\ charAt(path, Len(path)) = "/"
    THEN trimSlashes(SubSeq(path, 1, Len(path) - 1))
    ELSE path

\* filepath.Base: the last element
Base(path) ==
    LET p == trimSlashes(path)
        name == SubSeq(p, lastIndex(p, "/") + 1, Len(p))
    IN  IF path = "" THEN "."
        ELSE IF name = "" THEN "/"
        ELSE name

\* filepath.Dir: all but the last element, cleaned
Dir(path) == Clean(SubSeq(path, 1, lastIndex(path, "/")))

\* strings.TrimSuffix
TrimSuffix(s, suffix) ==
    IF Len(suffix) <= Len(s)
       /\ SubSeq(s, Len(s) - Len(suffix) + 1, Len(s)) = suffix
    THEN SubSeq(s, 1, Len(s) - Len(suffix))
    ELSE s

\* filepath.Join of two elements
Join(dir, name) ==
    IF dir = "" /\ name = "" THEN ""
    ELSE IF dir = "" THEN Clean(name)
    ELSE IF name = "" THEN Clean(dir)
    ELSE Clean(dir \o "/" \o name)

\* FileHandler.GenerateOutputPath: the suffix goes between the name and its
\* extension
GenerateOutputPath(inputFile, suffix) ==
    IF inputFile = "" THEN "output" \o suffix \o ".csv"
    ELSE LET cleanInput == Clean(inputFile)
             ext == Ext(cleanInput)
             base == TrimSuffix(Base(cleanInput), ext)
         IN  Join(Dir(cleanInput), base \o suffix \o ext)

\* Config.validateColumns: "" or the error
validateColumns(latColumn, lngColumn) ==
    IF latColumn = "" THEN "latitude column name cannot be empty"
    ELSE IF lngColumn = "" THEN "longitude column name cannot be empty"
    ELSE IF ToLower(TrimSpace(latColumn)) = ToLower(TrimSpace(lngColumn))
    THEN "latitude and longitude columns cannot be the same"
    ELSE ""

\* ValidateOutputFile without the test for a file in the way
ValidateOutputFile_NoConflictCheck(path, exists, overwrite) ==
    IF path = "" THEN "output file path cannot be empty" ELSE ""

\* FileHandler.ValidateOutputFile, the directory of the output being one
\* that exists and can be written: "" or the error
ValidateOutputFile(path, exists, overwrite) ==
    IF path = "" THEN "output file path cannot be empty"
    ELSE IF outputConflict(exists, overwrite) THEN "output file already exists"
    ELSE ""

\* Config.Validate: the error ("" for none) and the output path it leaves
\* in the configuration
ConfigValidate(c, inputExists, outputExists) ==
    LET out == IF c.OutputFile = "" THEN GenerateOutputPath(c.InputFile, "_with_h3")
               ELSE c.OutputFile
        colErr == validateColumns(c.LatColumn, c.LngColumn)
        outErr == ValidateOutputFile(out, outputExists, c.Overwrite)
    IN  IF c.InputFile = ""
        THEN [err |-> "input file path is required", OutputFile |-> c.OutputFile]
        ELSE IF ~inputExists
        THEN [err |-> "input file validation failed", OutputFile |-> c.OutputFile]
        ELSE IF colErr # ""
        THEN [err |-> "column validation failed: " \o colErr,
              OutputFile |-> c.OutputFile]
        ELSE IF ~ValidateResolution(c.Resolution)
        THEN [err |-> "resolution validation failed", OutputFile |-> c.OutputFile]
        ELSE IF outErr # ""
        THEN [err |-> "output file validation failed", OutputFile |-> out]
        ELSE [err |-> "", OutputFile |-> out]

-----------------------------------------------------------------------------
(* The inputs of a job *)

LatSpecs == {"latitude", "", "1"}
LngSpecs == {"2", "lat", " LATITUDE ", "01"}
Resolutions == {8, 16}
OutputFiles == {OutputPath}

HeaderRows ==
    { Row(<<"name", "latitude", "longitude">>),
      Row(<<"id", "Lat", " LNG ">>),
      Row(<<"a", "b", "c">>) }

DataRows ==
    { Row(<<"Edge", "-90", VT \o "180 ">>), \* valid, on the boundary, padded
      Row(<<"Bad", "91", "0">>),         \* latitude out of range
      Row(<<"Emp", "", "5">>),           \* empty latitude
      Row(<<"Unp", "40", "abc">>),       \* longitude is no number
      Row(<<"NaN", "NaN", "0">>),        \* parses, the generator rejects it
      Row(<<"Short">>),                  \* too few fields
      BadRow }                           \* csv.ParseError

SeqsUpTo(S, n) == UNION {[1..k -> S] : k \in 0..n}

\* what is at the output path before the job, when something is
OldOutput == << <<"old", "content">> >>

EmptyResult ==
    [TotalRecords |-> 0, ValidRecords |-> 0, InvalidRecords |-> 0, OutputFile |-> ""]

NoWriter == [open |-> FALSE, buf |-> <<>>, err |-> FALSE, headers |-> <<>>]

\* NewWriter that writes a header row whatever the job is
NewWriter_HeaderAlways(exists, overwrite, inputHeaders, hasHeaders) ==
    IF outputConflict(exists, overwrite)
    THEN [err |-> "output file already exists", writer |-> NoWriter]
    ELSE [err |-> "",
          writer |-> [open |-> TRUE, err |-> FALSE,
                      headers |-> outputHeaders(inputHeaders),
                      buf |-> <<outputHeaders(inputHeaders)>>]]

\* NewWriter on an output path where a file exists or not, with the headers
\* of the Reader (<<>> is nil): [err, writer]. The file is created or
\* truncated by the caller's step when err is ""; the header row goes to
\* the buffer of the csv writer.
NewWriter(exists, overwrite, inputHeaders, hasHeaders) ==
    LET headers == IF inputHeaders # <<>> THEN outputHeaders(inputHeaders)
                   ELSE <<>>
    IN  IF outputConflict(exists, overwrite)
        THEN [err |-> "output file already exists", writer |-> NoWriter]
        ELSE [err |-> "",
              writer |-> [open |-> TRUE, err |-> FALSE, headers |-> headers,
                          buf |-> IF hasHeaders /\ headers # <<>>
                                  THEN <<headers>> ELSE <<>>]]

-----------------------------------------------------------------------------
(* State *)

VARIABLES
    cfg,          \* config.Config of the job
    inExists,     \* a readable regular file is at the input path
    inFile,       \* its raw rows
    outExists,    \* a file is at the output path
    outFile,      \* the rows on disk at the output path
    out0,         \* outExists and outFile before the job
    sp,           \* the StreamingProcessor: which components it has
    pc,           \* where Orchestrator.ProcessFile stands
    reader,       \* the Reader of processWithProgress
    writer,       \* the Writer: buf holds the rows not yet on disk
    record,       \* the Record in flight in ProcessStream
    counters,     \* recordCount, validCount, errorCount of ProcessStream
    result,       \* the ProcessResult the record handler updates
    ret,          \* what ProcessFile returned: the error, and the result or nil
    rowsRead,     \* rows any csv.Reader of the job handed out, headers included
    dataReads,    \* calls of Reader.ReadRecord that consumed a raw row
    readLog,      \* positions in inFile of the rows ReadRecord returned as Records
    sinkLog,      \* the calls of the record handler: position and Record passed
    sinkFailed,   \* the record handler returned an error
    text,         \* one line of the input and of the output, as characters
    handles,      \* per os.Open of the input by the job: how often it was closed
    replay,       \* the job run a second time: the run, the first run's outcome
    jobs,         \* jobs run side by side, each with its own files
    dir           \* the directory of their outputs: the scratch files in it

vars == <<cfg, inExists, inFile, outExists, outFile, out0, sp, pc, reader, writer,
          record, counters, result, ret, rowsRead, dataReads, readLog, sinkLog,
          sinkFailed, text, handles, replay, jobs, dir>>

env == <<inExists, inFile, out0, sp, text, replay, jobs, dir>>
history == <<rowsRead, dataReads, readLog, sinkLog, sinkFailed>>

\* no line is looked at character by character
NoText == [in |-> <<>>, fields |-> <<>>, out |-> <<>>]

\* the job is run once
NoReplay == [run |-> 1, first |-> <<>>, failAt |-> 0, spill |-> FALSE,
             flushOk |-> TRUE]

\* the parts of the state a specification of one job over whole rows leaves
\* aside
Aside ==
    /\ text = NoText
    /\ replay = NoReplay
    /\ jobs = <<>>
    /\ dir = {}

Init ==
    /\ \E lat \in LatSpecs, lng \in LngSpecs, res \in Resolutions,
          hh \in BOOLEAN, ow \in BOOLEAN, of \in OutputFiles :
          cfg = [InputFile |-> InputPath, OutputFile |-> of, LatColumn |-> lat,
                 LngColumn |-> lng, Resolution |-> res, HasHeaders |-> hh,
                 Overwrite |-> ow]
    /\ inExists \in BOOLEAN
    /\ \E head \in SeqsUpTo(HeaderRows, 1), data \in SeqsUpTo(DataRows, MaxRows) :
          inFile = IF ~inExists THEN <<>>
                   ELSE IF cfg.HasHeaders THEN head \o data
                   ELSE data
    /\ outExists \in BOOLEAN
    /\ outFile = IF outExists THEN OldOutput ELSE <<>>
    /\ out0 = [exists |-> outExists, content |-> outFile]
    /\ sp = OrchestratorProcessor
    /\ pc = "start"
    /\ reader = NoReader
    /\ writer = NoWriter
    /\ record = NilRecord
    /\ counters = [recordCount |-> 0, validCount |-> 0, errorCount |-> 0]
    /\ result = EmptyResult
    /\ ret = [returned |-> FALSE, err |-> "", cause |-> "", hasResult |-> FALSE,
              result |-> EmptyResult]
    /\ rowsRead = 0
    /\ dataReads = 0
    /\ readLog = <<>>
    /\ sinkLog = <<>>
    /\ sinkFailed = FALSE
    /\ handles = <<>>
    /\ Aside

\* a failing ProcessFile that hands out the ProcessResult built so far
Fail_WithPartialResult(err, cause) ==
    [returned |-> TRUE, err |-> err, cause |-> cause, hasResult |-> TRUE,
     result |-> result]

\* ProcessFile returns (nil, err)
Fail(err, cause) ==
    [returned |-> TRUE, err |-> err, cause |-> cause, hasResult |-> FALSE,
     result |-> EmptyResult]

\* what csv.Writer.Flush can do: with nothing buffered nothing is written
\* and nothing fails
FlushOutcomes(w) == IF w.buf = <<>> THEN {TRUE} ELSE BOOLEAN

\* the deferred reader.Close() and writer.Close() of processWithProgress;
\* Close flushes once more, which writes nothing when an earlier write failed
closedReader(r) == [r EXCEPT !.open = FALSE]
closedWriter(w) == [w EXCEPT !.open = FALSE, !.buf = <<>>]

\* the os.File of a call nr of NewReader, entered in the handles
openFile(hs, nr) ==
    IF nr.file = "none" THEN hs
    ELSE Append(hs, IF nr.file = "closed" THEN 1 ELSE 0)

\* Reader.Close on the Reader opened last: r.file.Close()
closeFile(hs) == [hs EXCEPT ![Len(hs)] = @ + 1]

-----------------------------------------------------------------------------
(* Orchestrator.ProcessFile, step by step *)

\* o.config.Validate()
Validate ==
    /\ pc = "start"
    /\ LET v == ConfigValidate(cfg, inExists, outExists)
       IN  /\ cfg' = [cfg EXCEPT !.OutputFile = v.OutputFile]
           /\ IF v.err # ""
              THEN /\ pc' = "done"
                   /\ ret' = Fail("configuration validation failed", v.err)
              ELSE /\ pc' = "validated"
                   /\ UNCHANGED ret
    /\ handles' = IF cfg.InputFile # "" /\ inExists
                  THEN Append(handles, 1)
                  ELSE handles
    /\ UNCHANGED <<env, outExists, outFile, reader, writer, record, counters,
                   result, history>>

\* o.validateCSVStructure(): a Reader of its own, closed on return
validateCSVStructure ==
    /\ pc = "validated"
    /\ LET nr == NewReader(inExists, inFile, cfg.LatColumn, cfg.LngColumn,
                           cfg.HasHeaders)
           verr == ValidateColumns(nr.reader.headers, cfg.HasHeaders,
                                   cfg.LatColumn, cfg.LngColumn)
       IN  /\ rowsRead' = rowsRead + nr.rows
           /\ handles' = IF nr.err = "" THEN closeFile(openFile(handles, nr))
                         ELSE openFile(handles, nr)
           /\ IF nr.err # ""
              THEN /\ pc' = "done"
                   /\ ret' = Fail("CSV structure validation failed", nr.err)
              ELSE IF verr # ""
              THEN /\ pc' = "done"
                   /\ ret' = Fail("CSV structure validation failed", verr)
              ELSE /\ pc' = "prevalidated"
                   /\ UNCHANGED ret
    /\ UNCHANGED <<cfg, env, outExists, outFile, reader, writer, record,
                   counters, result, dataReads, readLog, sinkLog, sinkFailed>>

\* processWithProgress up to the call of ProcessStream: os.Stat, NewReader,
\* NewWriter (which creates or truncates the output and buffers the header)
openStreams ==
    /\ pc = "prevalidated"
    /\ LET nr == NewReader(inExists, inFile, cfg.LatColumn, cfg.LngColumn,
                           cfg.HasHeaders)
           nw == NewWriter(outExists, cfg.Overwrite, nr.reader.headers,
                           cfg.HasHeaders)
       IN  IF ~inExists
           THEN /\ pc' = "done"
                /\ ret' = Fail("file processing failed", "stat")
                /\ UNCHANGED <<outExists, outFile, reader, writer, rowsRead,
                               handles>>
           ELSE IF nr.err # ""
           THEN /\ pc' = "done"
                /\ ret' = Fail("file processing failed", nr.err)
                /\ rowsRead' = rowsRead + nr.rows
                /\ handles' = openFile(handles, nr)
                /\ UNCHANGED <<outExists, outFile, reader, writer>>
           ELSE IF nw.err # ""
           THEN /\ pc' = "done"
                /\ ret' = Fail("file processing failed", nw.err)
                /\ rowsRead' = rowsRead + nr.rows
                /\ reader' = closedReader(nr.reader)
                /\ handles' = closeFile(openFile(handles, nr))
                /\ UNCHANGED <<outExists, outFile, writer>>
           ELSE /\ pc' = "read"
                /\ rowsRead' = rowsRead + nr.rows
                /\ reader' = nr.reader
                /\ handles' = openFile(handles, nr)
                /\ outExists' = TRUE
                /\ outFile' = <<>>
                /\ writer' = nw.writer
                /\ UNCHANGED ret
    /\ UNCHANGED <<cfg, env, record, counters, result, dataReads, readLog,
                   sinkLog, sinkFailed>>

\* the next read of the csv reader goes to a closed file: nothing is left
\* in the buffer of bufio, which then reads from the file
readFails(r, content) ==
    ~r.open /\ (~r.buffered \/ r.pos >= Len(content))

\* ProcessStream: reader.ReadRecord() and the handling of its error
readNext ==
    /\ pc = "read"
    /\ IF readFails(reader, inFile)
       THEN \* the file was closed under the Reader: an error that is not
            \* "EOF", counted as a malformed row
            /\ counters.errorCount < MaxRows + MaxFailedReads
            /\ counters' = [counters EXCEPT !.errorCount = @ + 1]
            /\ pc' = "read"
            /\ UNCHANGED <<reader, record, rowsRead, dataReads, readLog>>
       ELSE IF reader.pos >= Len(inFile)
       THEN \* io.EOF
            /\ pc' = "flush"
            /\ UNCHANGED <<reader, record, counters, rowsRead, dataReads, readLog>>
       ELSE LET at == reader.pos + 1
                rr == ReadRecord(inFile[at], reader.latIndex, reader.lngIndex,
                                 InputOffset(inFile, at))
            IN  /\ reader' = [reader EXCEPT !.pos = at, !.buffered = TRUE]
                /\ dataReads' = dataReads + 1
                /\ rowsRead' = IF inFile[at].err THEN rowsRead ELSE rowsRead + 1
                /\ IF rr.err # ""
                   THEN /\ counters' = [counters EXCEPT !.errorCount = @ + 1]
                        /\ pc' = "read"
                        /\ UNCHANGED <<record, readLog>>
                   ELSE /\ counters' = [counters EXCEPT !.recordCount = @ + 1]
                        /\ record' = rr.record
                        /\ readLog' = Append(readLog, at)
                        /\ pc' = "process"
    /\ UNCHANGED <<cfg, env, outExists, outFile, writer, result, ret, sinkLog,
                   sinkFailed, handles>>

\* validateAndGenerate that, when verbose, reports an invalid record and
\* does not hand it to the handler
validateAndGenerate_VerboseSkipsInvalid ==
    /\ pc = "process"
    /\ LET p == processRecord(sp, record, cfg.Resolution)
       IN  /\ record' = p.record
           /\ counters' = [counters EXCEPT !.validCount = @ + p.valid,
                                           !.errorCount = @ + p.errors]
           /\ pc' = IF cfg.Verbose /\ ~p.record.IsValid THEN "read" ELSE "handler"
    /\ UNCHANGED <<cfg, env, outExists, outFile, reader, writer, result, ret,
                   history, handles>>

\* validateAndGenerate with the handler skipped for invalid records
validateAndGenerate_SkipInvalid ==
    /\ pc = "process"
    /\ LET p == processRecord(sp, record, cfg.Resolution)
       IN  /\ record' = p.record
           /\ counters' = [counters EXCEPT !.validCount = @ + p.valid,
                                           !.errorCount = @ + p.errors]
           /\ pc' = IF p.record.IsValid THEN "handler" ELSE "read"
    /\ UNCHANGED <<cfg, env, outExists, outFile, reader, writer, result, ret,
                   history, handles>>

\* ProcessStream: validation and index generation for the record read
validateAndGenerate ==
    /\ pc = "process"
    /\ LET p == processRecord(sp, record, cfg.Resolution)
       IN  /\ record' = p.record
           /\ counters' = [counters EXCEPT !.validCount = @ + p.valid,
                                           !.errorCount = @ + p.errors]
    /\ pc' = "handler"
    /\ UNCHANGED <<cfg, env, outExists, outFile, reader, writer, result, ret,
                   history, handles>>

\* tally that counts valid records only in the total
tally_ValidOnly(r, rec) ==
    [r EXCEPT !.TotalRecords = IF rec.IsValid THEN @ + 1 ELSE @,
              !.ValidRecords = IF rec.IsValid THEN @ + 1 ELSE @,
              !.InvalidRecords = IF rec.IsValid THEN @ ELSE @ + 1]

\* the counters of the record handler of processWithProgress
tally(r, rec) ==
    [r EXCEPT !.TotalRecords = @ + 1,
              !.ValidRecords = IF rec.IsValid THEN @ + 1 ELSE @,
              !.InvalidRecords = IF rec.IsValid THEN @ ELSE @ + 1]

\* recordHandler with a failed write counted and the stream continued
recordHandler_SwallowError ==
    /\ pc = "handler"
    /\ result' = tally(result, record)
    /\ sinkLog' = Append(sinkLog, [pos |-> reader.pos, record |-> record])
    /\ \E outcome \in {"buffered", "spilled", "failed"} :
          CASE outcome = "buffered" ->
                 /\ writer' = [writer EXCEPT !.buf = Append(@, outputRow(record))]
                 /\ UNCHANGED <<outFile, sinkFailed>>
            [] outcome = "spilled" ->
                 /\ outFile' = outFile \o Append(writer.buf, outputRow(record))
                 /\ writer' = [writer EXCEPT !.buf = <<>>]
                 /\ UNCHANGED sinkFailed
            [] outcome = "failed" ->
                 /\ sinkFailed' = TRUE
                 /\ writer' = [writer EXCEPT !.err = TRUE]
                 /\ UNCHANGED outFile
    /\ pc' = "read"
    /\ UNCHANGED <<cfg, env, outExists, reader, ret, record, counters, rowsRead,
                   dataReads, readLog, handles>>

\* ProcessStream: the record handler of processWithProgress. WriteRecord
\* leaves the row in the writer's buffer, or the buffer is full and goes to
\* disk with it, or that write fails
recordHandler ==
    /\ pc = "handler"
    /\ result' = tally(result, record)
    /\ sinkLog' = Append(sinkLog, [pos |-> reader.pos, record |-> record])
    /\ \E outcome \in {"buffered", "spilled", "failed"} :
          CASE outcome = "buffered" ->
                 /\ writer' = [writer EXCEPT !.buf = Append(@, outputRow(record))]
                 /\ pc' = "read"
                 /\ UNCHANGED <<outFile, reader, ret, sinkFailed, handles>>
            [] outcome = "spilled" ->
                 /\ outFile' = outFile \o Append(writer.buf, outputRow(record))
                 /\ writer' = [writer EXCEPT !.buf = <<>>]
                 /\ pc' = "read"
                 /\ UNCHANGED <<reader, ret, sinkFailed, handles>>
            [] outcome = "failed" ->
                 /\ sinkFailed' = TRUE
                 /\ ret' = Fail("file processing failed", "stream processing failed")
                 /\ writer' = closedWriter([writer EXCEPT !.err = TRUE])
                 /\ reader' = closedReader(reader)
                 /\ handles' = closeFile(handles)
                 /\ pc' = "done"
                 /\ UNCHANGED outFile
    /\ UNCHANGED <<cfg, env, outExists, record, counters, rowsRead, dataReads,
                   readLog>>

\* processWithProgress after ProcessStream returned nil: writer.Flush(), the
\* deferred Close calls, and the return of ProcessFile
flush ==
    /\ pc = "flush"
    /\ \E ok \in FlushOutcomes(writer) :
          IF ok
          THEN /\ outFile' = outFile \o writer.buf
               /\ writer' = closedWriter(writer)
               /\ ret' = [returned |-> TRUE, err |-> "", cause |-> "",
                          hasResult |-> TRUE,
                          result |-> [result EXCEPT !.OutputFile = cfg.OutputFile]]
          ELSE /\ writer' = closedWriter([writer EXCEPT !.err = TRUE])
               /\ ret' = Fail("file processing failed", "flush")
               /\ UNCHANGED outFile
    /\ reader' = closedReader(reader)
    /\ handles' = closeFile(handles)
    /\ pc' = "done"
    /\ UNCHANGED <<cfg, env, outExists, record, counters, result, history>>

\* the configurations a caller may hand to NewOrchestrator and to SetConfig
Configs ==
    [InputFile : {InputPath}, OutputFile : OutputFiles, LatColumn : LatSpecs,
     LngColumn : LngSpecs, Resolution : Resolutions, HasHeaders : BOOLEAN,
     Overwrite : BOOLEAN]

\* Orchestrator.SetConfig: the configuration of the Orchestrator is replaced
\* as a whole. The Orchestrator is used by one goroutine: the call comes
\* before the call of ProcessFile, not during it.
SetConfig ==
    /\ pc = "start"
    /\ cfg' \in Configs
    /\ UNCHANGED <<env, outExists, outFile, reader, writer, record, counters,
                   result, ret, history, handles, pc>>

Next ==
    \/ SetConfig
    \/ Validate
    \/ validateCSVStructure
    \/ openStreams
    \/ readNext
    \/ validateAndGenerate
    \/ recordHandler
    \/ flush

Spec == Init /\ [][Next]_vars

-----------------------------------------------------------------------------
(* StreamingProcessor.ProcessFile: the job as the Processor interface of    *)
(* package csv runs it, on a csv.Config nobody validated and with a         *)
(* StreamingProcessor whose components may be nil                           *)

ProcessorLatSpecs == {"1"}
ProcessorLngSpecs == {"2"}

InitProcessor ==
    /\ \E lat \in ProcessorLatSpecs, lng \in ProcessorLngSpecs,
          res \in Resolutions, hh \in BOOLEAN, ow \in BOOLEAN :
          cfg = [InputFile |-> InputPath, OutputFile |-> OutputPath,
                 LatColumn |-> lat, LngColumn |-> lng, Resolution |-> res,
                 HasHeaders |-> hh, Overwrite |-> ow]
    /\ inExists \in BOOLEAN
    /\ \E head \in SeqsUpTo(HeaderRows, 1), data \in SeqsUpTo(DataRows, MaxRows) :
          inFile = IF ~inExists THEN <<>>
                   ELSE IF cfg.HasHeaders THEN head \o data
                   ELSE data
    /\ outExists \in BOOLEAN
    /\ outFile = IF outExists THEN OldOutput ELSE <<>>
    /\ out0 = [exists |-> outExists, content |-> outFile]
    /\ sp \in Processors
    /\ pc = "ProcessFile"
    /\ reader = NoReader
    /\ writer = NoWriter
    /\ record = NilRecord
    /\ counters = [recordCount |-> 0, validCount |-> 0, errorCount |-> 0]
    /\ result = EmptyResult
    /\ ret = [returned |-> FALSE, err |-> "", cause |-> "", hasResult |-> FALSE,
              result |-> EmptyResult]
    /\ rowsRead = 0
    /\ dataReads = 0
    /\ readLog = <<>>
    /\ sinkLog = <<>>
    /\ sinkFailed = FALSE
    /\ handles = <<>>
    /\ Aside

\* ProcessFile returns nil
Return == [returned |-> TRUE, err |-> "", cause |-> "", hasResult |-> FALSE,
           result |-> EmptyResult]

\* ProcessFile up to the call of ProcessStream: NewReader and NewWriter
ProcessFile_open ==
    /\ pc = "ProcessFile"
    /\ LET nr == NewReader(inExists, inFile, cfg.LatColumn, cfg.LngColumn,
                           cfg.HasHeaders)
           nw == NewWriter(outExists, cfg.Overwrite, nr.reader.headers,
                           cfg.HasHeaders)
       IN  /\ rowsRead' = rowsRead + nr.rows
           /\ handles' = IF nr.err = "" /\ nw.err # ""
                         THEN closeFile(openFile(handles, nr))
                         ELSE openFile(handles, nr)
           /\ IF nr.err # ""
              THEN /\ pc' = "done"
                   /\ ret' = Fail("failed to open input file", nr.err)
                   /\ UNCHANGED <<outExists, outFile, reader, writer>>
              ELSE IF nw.err # ""
              THEN /\ pc' = "done"
                   /\ ret' = Fail("failed to create output file", nw.err)
                   /\ reader' = closedReader(nr.reader)
                   /\ UNCHANGED <<outExists, outFile, writer>>
              ELSE /\ pc' = "read"
                   /\ reader' = nr.reader
                   /\ outExists' = TRUE
                   /\ outFile' = <<>>
                   /\ writer' = nw.writer
                   /\ UNCHANGED ret
    /\ UNCHANGED <<cfg, env, record, counters, result, dataReads, readLog,
                   sinkLog, sinkFailed>>

\* ProcessStream: the record handler of ProcessFile, which is
\* writer.WriteRecord and nothing else; its error ends ProcessStream and
\* ProcessFile, whose deferred Close calls run
ProcessFile_handler ==
    /\ pc = "handler"
    /\ sinkLog' = Append(sinkLog, [pos |-> reader.pos, record |-> record])
    /\ \E outcome \in {"buffered", "spilled", "failed"} :
          CASE outcome = "buffered" ->
                 /\ writer' = [writer EXCEPT !.buf = Append(@, outputRow(record))]
                 /\ pc' = "read"
                 /\ UNCHANGED <<outFile, reader, ret, sinkFailed, handles>>
            [] outcome = "spilled" ->
                 /\ outFile' = outFile \o Append(writer.buf, outputRow(record))
                 /\ writer' = [writer EXCEPT !.buf = <<>>]
                 /\ pc' = "read"
                 /\ UNCHANGED <<reader, ret, sinkFailed, handles>>
            [] outcome = "failed" ->
                 /\ sinkFailed' = TRUE
                 /\ ret' = Fail("record handler failed", "failed to write record")
                 /\ writer' = closedWriter([writer EXCEPT !.err = TRUE])
                 /\ reader' = closedReader(reader)
                 /\ handles' = closeFile(handles)
                 /\ pc' = "done"
                 /\ UNCHANGED outFile
    /\ UNCHANGED <<cfg, env, outExists, record, counters, result, rowsRead,
                   dataReads, readLog>>

\* ProcessFile after ProcessStream returned nil: the deferred writer.Close()
\* flushes, its error goes nowhere; reader.Close(); ProcessFile returns the
\* nil of ProcessStream
ProcessFile_return ==
    /\ pc = "flush"
    /\ \E ok \in FlushOutcomes(writer) :
          IF ok
          THEN /\ outFile' = outFile \o writer.buf
               /\ writer' = closedWriter(writer)
          ELSE /\ writer' = closedWriter([writer EXCEPT !.err = TRUE])
               /\ UNCHANGED outFile
    /\ ret' = Return
    /\ reader' = closedReader(reader)
    /\ handles' = closeFile(handles)
    /\ pc' = "done"
    /\ UNCHANGED <<cfg, env, outExists, record, counters, result, history>>

NextProcessor ==
    \/ ProcessFile_open
    \/ readNext
    \/ validateAndGenerate
    \/ ProcessFile_handler
    \/ ProcessFile_return

SpecProcessor == InitProcessor /\ [][NextProcessor]_vars

-----------------------------------------------------------------------------
(* NewReader by itself: the resolution of the two columns                   *)

ResolveHeaders ==
    { <<"name", "latitude", "longitude">>,
      <<"id", "Lat", " LNG ">>,
      <<"id", VT \o "Lat", "LNG" \o "\f">>,
      <<"y", "lat", "x", "lon">>,
      <<"lat", "LAT", "lng", "Lng">>,
      <<"latitude", "lat", "longitude", "lng">>,
      <<"a", "b", "c">> }
ResolveLatSpecs ==
    {"", "latitude", "LAT", " lat ", "y", "zzz", "1", "-2", "+1",
     "99999999999999999999"}
ResolveLngSpecs ==
    {"", "longitude", "Lng", "x", "abc", "2", "01", "-2", "-0",
     "9223372036854775808"}

InitResolve ==
    /\ \E lat \in ResolveLatSpecs, lng \in ResolveLngSpecs, hh \in BOOLEAN :
          cfg = [InputFile |-> InputPath, OutputFile |-> OutputPath,
                 LatColumn |-> lat, LngColumn |-> lng, Resolution |-> 8,
                 HasHeaders |-> hh, Overwrite |-> FALSE]
    /\ inExists = TRUE
    /\ \E h \in ResolveHeaders, data \in SeqsUpTo(DataRows, 1) :
          inFile = IF cfg.HasHeaders THEN <<Row(h)>> \o data ELSE data
    /\ outExists = FALSE
    /\ outFile = <<>>
    /\ out0 = [exists |-> outExists, content |-> outFile]
    /\ sp = OrchestratorProcessor
    /\ pc = "NewReader"
    /\ reader = NoReader
    /\ writer = NoWriter
    /\ record = NilRecord
    /\ counters = [recordCount |-> 0, validCount |-> 0, errorCount |-> 0]
    /\ result = EmptyResult
    /\ ret = [returned |-> FALSE, err |-> "", cause |-> "", hasResult |-> FALSE,
              result |-> EmptyResult]
    /\ rowsRead = 0
    /\ dataReads = 0
    /\ readLog = <<>>
    /\ sinkLog = <<>>
    /\ sinkFailed = FALSE
    /\ handles = <<>>
    /\ Aside

\* a call of NewReader(filename, config): the Reader it returns, or its error
openReader ==
    /\ pc = "NewReader"
    /\ LET nr == NewReader(inExists, inFile, cfg.LatColumn, cfg.LngColumn,
                           cfg.HasHeaders)
       IN  /\ reader' = nr.reader
           /\ rowsRead' = rowsRead + nr.rows
           /\ handles' = openFile(handles, nr)
           /\ ret' = [returned |-> TRUE, err |-> nr.err, cause |-> "",
                      hasResult |-> FALSE, result |-> EmptyResult]
    /\ pc' = "done"
    /\ UNCHANGED <<cfg, env, outExists, outFile, writer, record, counters,
                   result, dataReads, readLog, sinkLog, sinkFailed>>

NextResolve == openReader

SpecResolve == InitResolve /\ [][NextResolve]_vars

-----------------------------------------------------------------------------
(* The job of the Orchestrator with a caller that closes the input handle   *)
(* to end it early                                                          *)

\* The file of the Reader is closed while ProcessStream runs. The rows
\* bufio holds are still read; the read that goes to the file fails with
\* "file already closed".
closeInput ==
    /\ pc \in {"read", "process", "handler"}
    /\ reader.open
    /\ reader' = closedReader(reader)
    /\ handles' = closeFile(handles)
    /\ UNCHANGED <<cfg, env, outExists, outFile, pc, writer, record, counters,
                   result, ret, history>>

InitClosing ==
    /\ Init
    /\ cfg.LatColumn = "1"
    /\ cfg.LngColumn = "2"
    /\ cfg.Resolution = 8
    /\ inExists
    /\ ~outExists

NextClosing == Next \/ closeInput

SpecClosing == InitClosing /\ [][NextClosing]_vars

-----------------------------------------------------------------------------
(* The state of a job nothing was done for, shared by the specifications    *)
(* below                                                                    *)

NotStarted ==
    /\ sp = OrchestratorProcessor
    /\ reader = NoReader
    /\ writer = NoWriter
    /\ record = NilRecord
    /\ counters = [recordCount |-> 0, validCount |-> 0, errorCount |-> 0]
    /\ result = EmptyResult
    /\ ret = [returned |-> FALSE, err |-> "", cause |-> "", hasResult |-> FALSE,
              result |-> EmptyResult]
    /\ rowsRead = 0
    /\ dataReads = 0
    /\ readLog = <<>>
    /\ sinkLog = <<>>
    /\ sinkFailed = FALSE
    /\ handles = <<>>

-----------------------------------------------------------------------------
(* ReadRecord and CoordinateValidator.ValidateCoordinates by themselves:    *)
(* the coordinate fields of one row are parsed and the pair is validated    *)

\* coordinate fields strconv.ParseFloat accepts
CoordinateFields ==
    {"NaN", "Inf", "-Inf", "-181", "-180", "-91", "-90", "0", "90", "91",
     "180", "181"}

InitValidate ==
    /\ cfg = [InputFile |-> InputPath, OutputFile |-> OutputPath,
              LatColumn |-> "1", LngColumn |-> "2", Resolution |-> 8,
              HasHeaders |-> FALSE, Overwrite |-> FALSE]
    /\ inExists = TRUE
    /\ \E lat \in CoordinateFields, lng \in CoordinateFields :
          inFile = <<Row(<<"p", lat, lng>>)>>
    /\ outExists = FALSE
    /\ outFile = <<>>
    /\ out0 = [exists |-> outExists, content |-> outFile]
    /\ pc = "ReadRecord"
    /\ NotStarted
    /\ Aside

\* Reader.ReadRecord on the row: the two fields parsed
parseCoordinates ==
    /\ pc = "ReadRecord"
    /\ LET rr == ReadRecord(inFile[1], 1, 2, InputOffset(inFile, 1))
       IN  /\ record' = rr.record
           /\ dataReads' = dataReads + 1
           /\ rowsRead' = rowsRead + 1
    /\ pc' = "ValidateCoordinates"
    /\ UNCHANGED <<cfg, env, handles, outExists, outFile, reader, writer, counters,
                   result, ret, readLog, sinkLog, sinkFailed>>

\* validator.ValidateCoordinates(record.Latitude, record.Longitude), as
\* ProcessStream calls it for a record ReadRecord marked valid
validateCoordinates ==
    /\ pc = "ValidateCoordinates"
    /\ record.IsValid
    /\ ret' = [returned |-> TRUE,
               err |-> ValidateCoordinates(record.Latitude, record.Longitude),
               cause |-> "", hasResult |-> FALSE, result |-> EmptyResult]
    /\ pc' = "done"
    /\ UNCHANGED <<cfg, env, handles, outExists, outFile, reader, writer, record,
                   counters, result, history>>

NextValidate == parseCoordinates \/ validateCoordinates

SpecValidate == InitValidate /\ [][NextValidate]_vars

-----------------------------------------------------------------------------
(* One line through the csv.Reader of NewReader and the csv.Writer of       *)
(* NewWriter, character by character                                        *)

MaxLine == 4

\* the characters of a line: a letter and two candidate delimiters
Characters == {"a", ",", ";"}

\* the delimiters --delimiter is given in the model
Delimiters == {",", ";"}

\* Comma of csv.NewReader(file) and of csv.NewWriter(file), which neither
\* NewReader nor NewWriter sets
Comma == ","

RECURSIVE splitFields(_, _)
\* csv.Reader.Read on a line without quotes: the fields between the commas
splitFields(line, comma) ==
    LET at == {i \in 1..Len(line) : line[i] = comma}
    IN  IF at = {} THEN <<line>>
        ELSE <<SubSeq(line, 1, Min(at) - 1)>>
             \o splitFields(SubSeq(line, Min(at) + 1, Len(line)), comma)

\* csv.Writer.fieldNeedsQuotes, for fields of these characters
fieldNeedsQuotes(field, comma) == \E i \in 1..Len(field) : field[i] = comma

RECURSIVE joinFields(_, _)
\* csv.Writer.Write: the fields, quoted where needed, with comma between
joinFields(fields, comma) ==
    LET quoted(f) == IF fieldNeedsQuotes(f, comma)
                     THEN <<"\"">> \o f \o <<"\"">>
                     ELSE f
    IN  IF fields = <<>> THEN <<>>
        ELSE IF Len(fields) = 1 THEN quoted(fields[1])
        ELSE quoted(fields[1]) \o <<comma>> \o joinFields(Tail(fields), comma)

InitDelimiter ==
    /\ \E d \in Delimiters :
          cfg = [InputFile |-> InputPath, OutputFile |-> OutputPath,
                 LatColumn |-> "0", LngColumn |-> "1", Resolution |-> 8,
                 HasHeaders |-> FALSE, Delimiter |-> d, Overwrite |-> FALSE]
    /\ inExists = TRUE
    /\ inFile = <<>>
    /\ outExists = FALSE
    /\ outFile = <<>>
    /\ out0 = [exists |-> outExists, content |-> outFile]
    /\ \E line \in SeqsUpTo(Characters, MaxLine) :
          /\ line # <<>>
          /\ text = [in |-> line, fields |-> <<>>, out |-> <<>>]
    /\ pc = "Read"
    /\ NotStarted
    /\ replay = NoReplay
    /\ jobs = <<>>
    /\ dir = {}

\* the test of Reader.ReadRecord for a row that reaches both columns
sufficientColumns(row, latIndex, lngIndex) ==
    ~(Len(row) <= latIndex \/ Len(row) <= lngIndex)

\* the columns NewReader resolves for the job
lineColumns == detectColumns(<<>>, FALSE, -1, -1, cfg.LatColumn, cfg.LngColumn)

\* Reader.ReadRecord in ProcessStream: r.csvReader.Read() on the line and
\* the test for its columns. A row that is too short is counted as an
\* error and skipped; the read after it meets the end of the input, and the
\* job ends with nothing written.
readLine ==
    /\ pc = "Read"
    /\ LET row == splitFields(text.in, Comma)
       IN  IF sufficientColumns(row, lineColumns.latIndex, lineColumns.lngIndex)
           THEN /\ text' = [text EXCEPT !.fields = row]
                /\ counters' = [counters EXCEPT !.recordCount = @ + 1]
                /\ pc' = "Write"
           ELSE /\ counters' = [counters EXCEPT !.errorCount = @ + 1]
                /\ pc' = "done"
                /\ UNCHANGED text
    /\ UNCHANGED <<cfg, handles, replay, jobs, dir, inExists, inFile, out0, sp,
                   outExists, outFile, reader,
                   writer, record, result, ret, history>>

\* The record of the line, whose coordinates are no numbers, is counted as
\* an error and handed to the handler. Writer.WriteRecord: the fields and
\* the (empty) index through w.csvWriter.Write
writeLine ==
    /\ pc = "Write"
    /\ text' = [text EXCEPT !.out = joinFields(Append(text.fields, <<>>), Comma)]
    /\ counters' = [counters EXCEPT !.errorCount = @ + 1]
    /\ pc' = "done"
    /\ UNCHANGED <<cfg, handles, replay, jobs, dir, inExists, inFile, out0, sp,
                   outExists, outFile, reader,
                   writer, record, result, ret, history>>

NextDelimiter == readLine \/ writeLine

SpecDelimiter == InitDelimiter /\ [][NextDelimiter]_vars

-----------------------------------------------------------------------------
(* The job of the Orchestrator whose output path is its input path: one     *)
(* file, which the Reader reads and the Writer creates. outExists and        *)
(* outFile are that file; inFile is what the Reader still gets of it, which  *)
(* is the file until NewWriter truncates it and, from then on, what the      *)
(* csv.Reader holds in its buffer. The file is smaller than that buffer     *)
(* (4096 bytes): reading the header buffers all of it.                      *)

AliasRows ==
    { Row(<<"Edge", "-90", " 180 ">>),
      Row(<<"Bad", "91", "0">>),
      Row(<<"Short">>) }

\* the rows of a file as they are on disk
Fields(rows) == [i \in 1..Len(rows) |-> rows[i].fields]

InitAlias ==
    /\ \E lat \in {"1", "latitude"}, hh \in BOOLEAN, ow \in BOOLEAN :
          cfg = [InputFile |-> InputPath, OutputFile |-> InputPath,
                 LatColumn |-> lat, LngColumn |-> "2", Resolution |-> 8,
                 HasHeaders |-> hh, Overwrite |-> ow]
    /\ inExists = TRUE
    /\ \E head \in SeqsUpTo(HeaderRows, 1), data \in SeqsUpTo(AliasRows, MaxRows) :
          inFile = IF cfg.HasHeaders THEN head \o data ELSE data
    /\ outExists = TRUE
    /\ outFile = Fields(inFile)
    /\ out0 = [exists |-> outExists, content |-> outFile]
    /\ pc = "start"
    /\ NotStarted
    /\ Aside

\* processWithProgress up to the call of ProcessStream, on the one file:
\* os.Create in NewWriter truncates the file the Reader has open, and the
\* Reader is left with what it buffered, which is everything when it read a
\* header and nothing when it did not read yet
openStreamsAliased ==
    /\ pc = "prevalidated"
    /\ LET nr == NewReader(inExists, inFile, cfg.LatColumn, cfg.LngColumn,
                           cfg.HasHeaders)
           nw == NewWriter(outExists, cfg.Overwrite, nr.reader.headers,
                           cfg.HasHeaders)
       IN  IF nr.err # ""
           THEN /\ pc' = "done"
                /\ ret' = Fail("file processing failed", nr.err)
                /\ rowsRead' = rowsRead + nr.rows
                /\ handles' = openFile(handles, nr)
                /\ UNCHANGED <<inFile, outExists, outFile, reader, writer>>
           ELSE IF nw.err # ""
           THEN /\ pc' = "done"
                /\ ret' = Fail("file processing failed", nw.err)
                /\ rowsRead' = rowsRead + nr.rows
                /\ reader' = closedReader(nr.reader)
                /\ handles' = closeFile(openFile(handles, nr))
                /\ UNCHANGED <<inFile, outExists, outFile, writer>>
           ELSE /\ pc' = "read"
                /\ rowsRead' = rowsRead + nr.rows
                /\ reader' = nr.reader
                /\ handles' = openFile(handles, nr)
                /\ outExists' = TRUE
                /\ outFile' = <<>>
                /\ inFile' = IF cfg.HasHeaders THEN inFile ELSE <<>>
                /\ writer' = nw.writer
                /\ UNCHANGED ret
    /\ UNCHANGED <<cfg, inExists, out0, sp, text, replay, jobs, dir, record,
                   counters, result, dataReads, readLog, sinkLog, sinkFailed>>

NextAlias ==
    \/ Validate
    \/ validateCSVStructure
    \/ openStreamsAliased
    \/ readNext
    \/ validateAndGenerate
    \/ recordHandler
    \/ flush

SpecAlias == InitAlias /\ [][NextAlias]_vars

-----------------------------------------------------------------------------
(* The job of the Orchestrator run twice over the same input and            *)
(* configuration, the second time with the other verbosity. The writes of   *)
(* both runs meet the same fate: write number failAt fails (0: none does),  *)
(* the others spill or stay buffered, and the final flush succeeds or not   *)

VerbosityRows ==
    { Row(<<"Edge", "-90", " 180 ">>),
      Row(<<"Bad", "91", "0">>),
      Row(<<"Short">>),
      BadRow }

\* the diagnostic messages of ProcessStream so far: with config.Verbose one
\* fmt.Printf beside each errorCount++, none without
Warnings == IF cfg.Verbose THEN counters.errorCount ELSE 0

\* what a run did: the reads, the calls of the sink with their records, the
\* tallies, the output file and what ProcessFile returned
Outcome ==
    [ret |-> ret, result |-> result, counters |-> counters,
     rowsRead |-> rowsRead, dataReads |-> dataReads, readLog |-> readLog,
     sinkLog |-> sinkLog, sinkFailed |-> sinkFailed, handles |-> handles,
     outExists |-> outExists, outFile |-> outFile]

InitVerbosity ==
    /\ \E ver \in BOOLEAN, hh \in BOOLEAN :
          cfg = [InputFile |-> InputPath, OutputFile |-> OutputPath,
                 LatColumn |-> "1", LngColumn |-> "2", Resolution |-> 8,
                 HasHeaders |-> hh, Overwrite |-> FALSE, Verbose |-> ver]
    /\ inExists = TRUE
    /\ \E head \in SeqsUpTo(HeaderRows, 1), data \in SeqsUpTo(VerbosityRows, MaxRows) :
          inFile = IF cfg.HasHeaders THEN head \o data ELSE data
    /\ outExists = FALSE
    /\ outFile = <<>>
    /\ out0 = [exists |-> outExists, content |-> outFile]
    /\ \E at \in 0..MaxRows, spill \in BOOLEAN, ok \in BOOLEAN :
          replay = [run |-> 1, first |-> <<>>, failAt |-> at, spill |-> spill,
                    flushOk |-> ok]
    /\ text = NoText
    /\ jobs = <<>>
    /\ dir = {}
    /\ pc = "start"
    /\ NotStarted

\* what became of the write of the handler call just made
sinkOutcome ==
    IF sinkFailed THEN "failed"
    ELSE IF writer.buf = <<>> THEN "spilled"
    ELSE "buffered"

\* the record handler, its write meeting the fate laid down for it
recordHandlerReplayed ==
    /\ recordHandler
    /\ sinkOutcome' = IF Len(sinkLog) + 1 = replay.failAt THEN "failed"
                      ELSE IF replay.spill THEN "spilled"
                      ELSE "buffered"

\* the final flush, failing (when there is something to write) or not as
\* laid down
flushReplayed ==
    /\ flush
    /\ (ret'.err = "") = (replay.flushOk \/ writer.buf = <<>>)

\* the first run has returned: its outcome and its messages are kept, the
\* output path is put back as it was, and a new Orchestrator is built on the
\* same configuration but for Verbose
runAgain ==
    /\ pc = "done"
    /\ replay.run = 1
    /\ replay' = [replay EXCEPT !.run = 2,
                                !.first = <<[outcome |-> Outcome,
                                             warnings |-> Warnings]>>]
    /\ cfg' = [cfg EXCEPT !.Verbose = ~@]
    /\ outExists' = out0.exists
    /\ outFile' = out0.content
    /\ pc' = "start"
    /\ reader' = NoReader
    /\ writer' = NoWriter
    /\ record' = NilRecord
    /\ counters' = [recordCount |-> 0, validCount |-> 0, errorCount |-> 0]
    /\ result' = EmptyResult
    /\ ret' = [returned |-> FALSE, err |-> "", cause |-> "", hasResult |-> FALSE,
               result |-> EmptyResult]
    /\ rowsRead' = 0
    /\ dataReads' = 0
    /\ readLog' = <<>>
    /\ sinkLog' = <<>>
    /\ sinkFailed' = FALSE
    /\ handles' = <<>>
    /\ UNCHANGED <<inExists, inFile, out0, sp, text, jobs, dir>>

NextVerbosity ==
    \/ Validate
    \/ validateCSVStructure
    \/ openStreams
    \/ readNext
    \/ validateAndGenerate
    \/ recordHandlerReplayed
    \/ flushReplayed
    \/ runAgain

SpecVerbosity == InitVerbosity /\ [][NextVerbosity]_vars

-----------------------------------------------------------------------------
(* Two jobs of the Orchestrator side by side. Each has its own Orchestrator *)
(* (NewOrchestrator builds the validator, the generator, the processor and  *)
(* the logger anew), its own input file and its own output file; the two    *)
(* output files lie in one directory, where FileHandler.testWritePermission *)
(* of both jobs creates and removes a scratch file of one fixed name. A job *)
(* moves by one stage or one input row at a time; writes do not fail.       *)

JobIds == {1, 2}

JobRows ==
    { Row(<<"Edge", "-90", " 180 ">>),
      Row(<<"Bad", "91", "0">>) }

\* ".csv-h3-tool-write-test"
TempFile == ".csv-h3-tool-write-test"

\* testWritePermission: os.Create(tempFile) and file.Close() in a directory
\* that can be written
testWritePermissionCreate(d) == [err |-> "", dir |-> d \cup {TempFile}]

\* testWritePermission whose os.Remove error is returned
testWritePermissionRemove_Fatal(d) ==
    [err |-> IF TempFile \in d THEN "" ELSE "cannot write to directory",
     warned |-> FALSE, dir |-> d \ {TempFile}]

\* testWritePermission: os.Remove(tempFile), whose error is a warning on
\* stderr and nothing more
testWritePermissionRemove(d) ==
    [err |-> "", warned |-> TempFile \notin d, dir |-> d \ {TempFile}]

\* a job before Orchestrator.ProcessFile is called; existed keeps whether a
\* file was at its output path then
NewJob(c, content, exists) ==
    [cfg |-> c, inFile |-> content, existed |-> exists, outExists |-> exists,
     outFile |-> IF exists THEN OldOutput ELSE <<>>,
     pc |-> "start", reader |-> NoReader, writer |-> NoWriter,
     result |-> EmptyResult, warnings |-> 0,
     ret |-> [returned |-> FALSE, err |-> "", cause |-> "", hasResult |-> FALSE,
              result |-> EmptyResult]]

\* ProcessFile of the job returns (nil, err)
jobFail(job, err, cause) ==
    [job EXCEPT !.pc = "done",
                !.ret = [returned |-> TRUE, err |-> err, cause |-> cause,
                         hasResult |-> FALSE, result |-> EmptyResult],
                !.reader = closedReader(@),
                !.writer = closedWriter(@)]

\* Config.Validate up to and with the os.Create of testWritePermission
jobValidate(job, d) ==
    LET v == ConfigValidate(job.cfg, TRUE, job.outExists)
        t == testWritePermissionCreate(d)
    IN  IF v.err # ""
        THEN [job |-> jobFail(job, "configuration validation failed", v.err),
              dir |-> d]
        ELSE IF t.err # ""
        THEN [job |-> jobFail(job, "configuration validation failed", t.err),
              dir |-> t.dir]
        ELSE [job |-> [job EXCEPT !.pc = "created", !.cfg.OutputFile = v.OutputFile],
              dir |-> t.dir]

\* the rest of testWritePermission and of Config.Validate
jobRemoveTemp(job, d) ==
    LET t == testWritePermissionRemove(d)
    IN  IF t.err # ""
        THEN [job |-> jobFail(job, "configuration validation failed", t.err),
              dir |-> t.dir]
        ELSE [job |-> [job EXCEPT !.pc = "validated",
                                  !.warnings = IF t.warned THEN @ + 1 ELSE @],
              dir |-> t.dir]

\* validateCSVStructure
jobPrevalidate(job) ==
    LET nr == NewReader(TRUE, job.inFile, job.cfg.LatColumn, job.cfg.LngColumn,
                        job.cfg.HasHeaders)
        verr == ValidateColumns(nr.reader.headers, job.cfg.HasHeaders,
                                job.cfg.LatColumn, job.cfg.LngColumn)
    IN  IF nr.err # "" THEN jobFail(job, "CSV structure validation failed", nr.err)
        ELSE IF verr # "" THEN jobFail(job, "CSV structure validation failed", verr)
        ELSE [job EXCEPT !.pc = "prevalidated"]

\* processWithProgress up to the call of ProcessStream
jobOpen(job) ==
    LET nr == NewReader(TRUE, job.inFile, job.cfg.LatColumn, job.cfg.LngColumn,
                        job.cfg.HasHeaders)
        nw == NewWriter(job.outExists, job.cfg.Overwrite, nr.reader.headers,
                        job.cfg.HasHeaders)
    IN  IF nr.err # "" THEN jobFail(job, "file processing failed", nr.err)
        ELSE IF nw.err # "" THEN jobFail(job, "file processing failed", nw.err)
        ELSE [job EXCEPT !.pc = "read", !.reader = nr.reader,
                         !.writer = nw.writer, !.outExists = TRUE,
                         !.outFile = <<>>]

\* ProcessStream on the next row of the job's input: ReadRecord, validation
\* and generation, the record handler; at the end of the input Flush, the
\* deferred Close calls and the return of the result
jobRow(job) ==
    IF job.reader.pos >= Len(job.inFile)
    THEN [job EXCEPT !.pc = "done",
                     !.outFile = @ \o job.writer.buf,
                     !.writer = closedWriter(@),
                     !.reader = closedReader(@),
                     !.ret = [returned |-> TRUE, err |-> "", cause |-> "",
                              hasResult |-> TRUE,
                              result |-> [job.result EXCEPT
                                             !.OutputFile = job.cfg.OutputFile]]]
    ELSE LET at == job.reader.pos + 1
             rr == ReadRecord(job.inFile[at], job.reader.latIndex,
                              job.reader.lngIndex, InputOffset(job.inFile, at))
             p == processRecord(OrchestratorProcessor, rr.record,
                                job.cfg.Resolution)
         IN  IF rr.err # ""
             THEN [job EXCEPT !.reader.pos = at, !.reader.buffered = TRUE]
             ELSE [job EXCEPT !.reader.pos = at,
                              !.reader.buffered = TRUE,
                              !.result = tally(@, p.record),
                              !.writer.buf = Append(@, outputRow(p.record))]

\* the next move of a job that has not returned, in a directory d
jobNext(job, d) ==
    CASE job.pc = "start" -> jobValidate(job, d)
      [] job.pc = "created" -> jobRemoveTemp(job, d)
      [] job.pc = "validated" -> [job |-> jobPrevalidate(job), dir |-> d]
      [] job.pc = "prevalidated" -> [job |-> jobOpen(job), dir |-> d]
      [] job.pc = "read" -> [job |-> jobRow(job), dir |-> d]

RECURSIVE runAlone(_, _)
\* the job run to its return with nothing beside it
runAlone(job, d) ==
    IF job.pc = "done" THEN job
    ELSE LET n == jobNext(job, d) IN runAlone(n.job, n.dir)

InitJobs ==
    /\ cfg = [InputFile |-> InputPath, OutputFile |-> OutputPath,
              LatColumn |-> "1", LngColumn |-> "2", Resolution |-> 8,
              HasHeaders |-> FALSE, Overwrite |-> FALSE]
    /\ inExists = TRUE
    /\ inFile = <<>>
    /\ outExists = FALSE
    /\ outFile = <<>>
    /\ out0 = [exists |-> outExists, content |-> outFile]
    /\ text = NoText
    /\ replay = NoReplay
    /\ pc = "jobs"
    /\ NotStarted
    /\ \E c1 \in SeqsUpTo(JobRows, MaxRows), c2 \in SeqsUpTo(JobRows, MaxRows),
          e1 \in BOOLEAN, e2 \in BOOLEAN :
          jobs = << NewJob([cfg EXCEPT !.InputFile = "in1.csv",
                                       !.OutputFile = "out1.csv"], c1, e1),
                    NewJob([cfg EXCEPT !.InputFile = "in2.csv",
                                       !.OutputFile = "out2.csv"], c2, e2) >>
    /\ dir = {}

\* job j becomes job n and the directory d
jobMoves(j, n, d) ==
    /\ jobs' = [jobs EXCEPT ![j] = n]
    /\ dir' = d
    /\ UNCHANGED <<cfg, inExists, inFile, out0, sp, text, replay, outExists,
                   outFile, pc, reader, writer, record, counters, result, ret,
                   history, handles>>

\* Config.Validate up to the creation of the scratch file
validateJob ==
    \E j \in JobIds :
        /\ jobs[j].pc = "start"
        /\ LET n == jobValidate(jobs[j], dir) IN jobMoves(j, n.job, n.dir)

\* the removal of the scratch file
removeScratch ==
    \E j \in JobIds :
        /\ jobs[j].pc = "created"
        /\ LET n == jobRemoveTemp(jobs[j], dir) IN jobMoves(j, n.job, n.dir)

\* validateCSVStructure
prevalidateJob ==
    \E j \in JobIds :
        /\ jobs[j].pc = "validated"
        /\ jobMoves(j, jobPrevalidate(jobs[j]), dir)

\* NewReader and NewWriter
openJob ==
    \E j \in JobIds :
        /\ jobs[j].pc = "prevalidated"
        /\ jobMoves(j, jobOpen(jobs[j]), dir)

\* one row through ProcessStream, or the end of the input
streamJob ==
    \E j \in JobIds :
        /\ jobs[j].pc = "read"
        /\ jobMoves(j, jobRow(jobs[j]), dir)

NextJobs ==
    \/ validateJob
    \/ removeScratch
    \/ prevalidateJob
    \/ openJob
    \/ streamJob

SpecJobs == InitJobs /\ [][NextJobs]_vars

-----------------------------------------------------------------------------
(* Vocabulary of the properties *)

Last(q) == q[Len(q)]
Front(q) == SubSeq(q, 1, Len(q) - 1)
Max(a, b) == IF a > b THEN a ELSE b

\* the rows of the input that NewReader takes as the header
HeaderCount == IF cfg.HasHeaders THEN 1 ELSE 0
\* the positions in inFile of the data rows
DataPositions == (HeaderCount + 1)..Len(inFile)

Streaming == pc \in {"read", "process", "handler", "flush"}
Succeeded == pc = "done" /\ ret.returned /\ ret.err = ""
Failed == pc = "done" /\ ret.returned /\ ret.err # ""

\* the row at position i parses and has a field at both coordinate columns
Sufficient(i) ==
    /\ ~inFile[i].err
    /\ Len(inFile[i].fields) >= Max(reader.latIndex, reader.lngIndex) + 1
Malformed(i) == ~Sufficient(i)

\* a float64 that is a number between a and b, bounds included
Within(f, a, b) == f.kind = "num" /\ a <= f.v /\ f.v <= b

\* the coordinates of a row of fields parse as numbers, lie in the
\* geographic domain, and the index generator accepts them
GoodCoordinates(fields) ==
    LET lat == ParseFloat(TrimSpace(fields[reader.latIndex + 1]))
        lng == ParseFloat(TrimSpace(fields[reader.lngIndex + 1]))
    IN  /\ lat.ok /\ lng.ok
        /\ Within(lat.f, -90, 90) /\ Within(lng.f, -180, 180)
        /\ LatLngToCell(lat.f, lng.f, cfg.Resolution).err = ""

\* the data rows of the output file of a job that created it
OutputData == IF cfg.HasHeaders /\ outFile # <<>> THEN Tail(outFile) ELSE outFile

\* the rows the Writer accepted so far, on disk or buffered, header included
Emitted == outFile \o writer.buf

\* the increasing sequence of the positions <= upTo whose rows are sufficient
RECURSIVE SufficientUpTo(_)
SufficientUpTo(upTo) ==
    IF upTo <= HeaderCount THEN <<>>
    ELSE IF Sufficient(upTo) THEN Append(SufficientUpTo(upTo - 1), upTo)
    ELSE SufficientUpTo(upTo - 1)

SinkPositions == [k \in 1..Len(sinkLog) |-> sinkLog[k].pos]
IndexedSinks == {k \in 1..Len(sinkLog) : Last(outputRow(sinkLog[k].record)) # ""}

-----------------------------------------------------------------------------
(* Properties *)

\* C1 (row conservation): when every data row of the input parses and has
\* enough fields for both resolved columns, a job that succeeds leaves an
\* output with exactly as many data rows as the input, the k-th output row
\* being the k-th input row followed by one field.
C1_RowConservation ==
    (Succeeded /\ \A i \in DataPositions : Sufficient(i)) =>
        /\ Len(OutputData) = Len(inFile) - HeaderCount
        /\ \A k \in 1..Len(OutputData) :
              Front(OutputData[k]) = inFile[HeaderCount + k].fields

\* a successful job over two different sufficient rows, one of which gets an
\* index and one of which does not
C1_Witness ==
    /\ Succeeded
    /\ Len(inFile) - HeaderCount = MaxRows
    /\ \A i \in DataPositions : Sufficient(i)
    /\ inFile[HeaderCount + 1] # inFile[HeaderCount + 2]
    /\ \E j, k \in 1..Len(OutputData) :
          Last(OutputData[j]) = "" /\ Last(OutputData[k]) # ""

\* C2 (sink order): the record handler is called exactly once for every row
\* ReadRecord returned, in input order, and has returned before the next row
\* is read; rows that failed to be read are never passed; at the end the
\* calls are as many as the rows read successfully.
C2_SinkOnceInOrder ==
    /\ Len(readLog) = Len(SinkPositions) + (IF pc \in {"process", "handler"} THEN 1 ELSE 0)
    /\ SinkPositions = SubSeq(readLog, 1, Len(SinkPositions))
    /\ (Streaming \/ Succeeded \/ sinkFailed) => readLog = SufficientUpTo(reader.pos)
    /\ Succeeded => Len(sinkLog) = Cardinality({i \in DataPositions : Sufficient(i)})

\* a successful job whose first data row failed to be read and whose second
\* was passed to the handler
C2_Witness ==
    /\ Succeeded
    /\ Len(inFile) - HeaderCount >= 2
    /\ Malformed(HeaderCount + 1)
    /\ SinkPositions = <<HeaderCount + 2>>

\* C3 (sink failure is fatal): once the record handler has failed the job
\* has ended with an error and without a result, and nothing is read from
\* the Reader or passed to the handler afterwards.
C3_SinkFailureFatal ==
    /\ [](sinkFailed => (Failed /\ ~ret.hasResult /\ ret.err = "file processing failed"))
    /\ [][sinkFailed => UNCHANGED <<reader, rowsRead, dataReads, readLog, sinkLog>>]_vars

\* the handler failed on the first record while a further row was unread
C3_Witness ==
    /\ sinkFailed
    /\ Len(sinkLog) = 1
    /\ reader.pos < Len(inFile)

\* C4 (malformed exclusion): a row with too few fields for the resolved
\* columns is never passed to the record handler, and no row the Writer
\* accepted comes from one.
C4_MalformedExcluded ==
    (Streaming \/ Succeeded \/ sinkFailed) =>
        /\ \A k \in 1..Len(sinkLog) :
              Len(inFile[sinkLog[k].pos].fields) >=
                  Max(reader.latIndex, reader.lngIndex) + 1
        /\ \A k \in (HeaderCount + 1)..Len(Emitted) :
              Len(Emitted[k]) - 1 >= Max(reader.latIndex, reader.lngIndex) + 1

\* a successful job with a short row before a row that was written
C4_Witness ==
    /\ Succeeded
    /\ Len(inFile) - HeaderCount >= 2
    /\ ~inFile[HeaderCount + 1].err
    /\ Len(inFile[HeaderCount + 1].fields) <= reader.latIndex
    /\ Len(OutputData) = 1

\* C5 (derived-field emptiness): the index field of a row passed to the
\* Writer is non-empty exactly when the coordinates of the input row parsed,
\* lay in [-90,90] x [-180,180] and index generation succeeded; the rows of
\* a successful job's output are these rows.
C5_IndexIffGoodCoordinates ==
    /\ \A k \in 1..Len(sinkLog) :
          (Last(outputRow(sinkLog[k].record)) # "")
              <=> GoodCoordinates(inFile[sinkLog[k].pos].fields)
    /\ Succeeded =>
          /\ Len(OutputData) = Len(sinkLog)
          /\ \A k \in 1..Len(sinkLog) :
                (Last(OutputData[k]) # "")
                    <=> GoodCoordinates(inFile[sinkLog[k].pos].fields)

\* a successful job whose output holds a row with an index, from boundary
\* coordinates, and a row without
C5_Witness ==
    /\ Succeeded
    /\ \E j, k \in 1..Len(OutputData) :
          /\ Last(OutputData[j]) # "" /\ OutputData[j][1] = "Edge"
          /\ Last(OutputData[k]) = "" /\ OutputData[k][1] = "NaN"

\* C6 (tally total): TotalRecords counts the calls of the record handler and
\* nothing else; malformed rows count in errorCount only; the total a job
\* reports is the number of rows forwarded.
C6_TotalCountsForwarded ==
    /\ result.TotalRecords = Len(sinkLog)
    /\ pc \in {"read", "flush"} =>
          counters.errorCount =
              Cardinality({i \in (HeaderCount + 1)..reader.pos : Malformed(i)})
              + Cardinality({k \in 1..Len(sinkLog) : ~sinkLog[k].record.IsValid})
    /\ Succeeded =>
          /\ ret.hasResult
          /\ ret.result.TotalRecords = Len(sinkLog)
          /\ ret.result.TotalRecords =
                Cardinality({i \in DataPositions : Sufficient(i)})

\* a successful job over a malformed row and a forwarded invalid row
C6_Witness ==
    /\ Succeeded
    /\ Len(inFile) - HeaderCount = 2
    /\ \E i \in DataPositions : Malformed(i)
    /\ ret.result.TotalRecords = 1
    /\ ret.result.InvalidRecords = 1

\* C7 (tally valid): ValidRecords counts the forwarded records whose
\* coordinates parsed, were in range and got an index, which are the rows
\* with a non-empty index; all other forwarded records count as invalid.
C7_ValidCountsIndexed ==
    /\ result.ValidRecords = Cardinality(IndexedSinks)
    /\ result.ValidRecords =
          Cardinality({k \in 1..Len(sinkLog) :
                          GoodCoordinates(inFile[sinkLog[k].pos].fields)})
    /\ result.InvalidRecords = Len(sinkLog) - Cardinality(IndexedSinks)
    /\ Succeeded =>
          /\ ret.result.ValidRecords =
                Cardinality({k \in 1..Len(OutputData) : Last(OutputData[k]) # ""})
          /\ ret.result.InvalidRecords =
                Len(OutputData) - ret.result.ValidRecords

\* a successful job that reports one valid record and one invalid record
\* whose coordinates parsed and passed the validator (NaN)
C7_Witness ==
    /\ Succeeded
    /\ ret.result.ValidRecords = 1
    /\ ret.result.InvalidRecords = 1
    /\ \E k \in 1..Len(sinkLog) : sinkLog[k].record.Latitude = NaN

ResolutionErrors ==
    {"latitude column not found", "longitude column not found",
     "column validation failed"}

\* C8 (fail-fast resolution): while records are streamed both columns are
\* resolved; a resolution failure is reported by the setup stage only, with
\* no data record read and the output path untouched.
C8_ResolutionFailsAtSetup ==
    /\ Streaming => (reader.latIndex >= 0 /\ reader.lngIndex >= 0)
    /\ (ret.returned /\ ret.cause \in ResolutionErrors) =>
          /\ ret.err = "CSV structure validation failed"
          /\ dataReads = 0
          /\ sinkLog = <<>>
          /\ outExists = out0.exists
          /\ outFile = out0.content
    /\ (pc \notin {"start", "validated"} /\ inExists
        /\ (~cfg.HasHeaders \/ (inFile # <<>> /\ ~inFile[1].err))
        /\ detectColumns(IF cfg.HasHeaders THEN inFile[1].fields ELSE <<>>,
                         cfg.HasHeaders, -1, -1,
                         cfg.LatColumn, cfg.LngColumn).err # "")
       => (Failed /\ dataReads = 0 /\ outExists = out0.exists)

\* resolution failed for the longitude alone, over an input with data rows
\* and no file at the output path
C8_Witness ==
    /\ Failed
    /\ ret.cause = "longitude column not found"
    /\ Len(inFile) > HeaderCount
    /\ ~out0.exists
    /\ ~outExists

\* C9 (same-column rejection), as claimed: whenever records are streamed the
\* two resolved column indices differ.
C9_DistinctColumns ==
    Streaming => reader.latIndex # reader.lngIndex

\* C10 (overwrite protection): with a file at the output path and no
\* overwrite permission the job fails in configuration validation, before
\* any row (header included) is read or written, and the file is unchanged.
C10_OverwriteProtection ==
    (out0.exists /\ ~cfg.Overwrite) =>
        /\ pc \in {"start", "done"}
        /\ pc = "done" => (Failed /\ ret.err = "configuration validation failed")
        /\ rowsRead = 0 /\ dataReads = 0 /\ sinkLog = <<>>
        /\ writer = NoWriter
        /\ outExists /\ outFile = out0.content

\* the job was refused because of the file at the output path, the input
\* holding data rows
C10_Witness ==
    /\ Failed
    /\ ret.cause = "output file validation failed"
    /\ out0.exists /\ ~cfg.Overwrite
    /\ Len(inFile) > HeaderCount
    /\ outFile = OldOutput

\* the rows a Writer has been given since NewWriter: the header row it wrote
\* and one row for every call of the record handler
HeaderRowsWritten ==
    IF cfg.HasHeaders /\ writer.headers # <<>> THEN <<writer.headers>> ELSE <<>>
RowsForwarded ==
    HeaderRowsWritten \o [k \in 1..Len(sinkLog) |-> outputRow(sinkLog[k].record)]

\* C11 (flush before success), as claimed: a job that reports success has
\* every row that was forwarded to the Writer in the output file, and a job
\* whose flush failed has ended with an error.
C11_FlushBeforeSuccess ==
    /\ Succeeded => outFile = RowsForwarded
    /\ (pc = "done" /\ ret.returned /\ writer.err) => Failed

\* C12 (termination), as claimed: a read that fails because the input
\* handle was closed is followed by the end of the processing loop, not by
\* another read.
C12_ClosedHandleEndsLoop ==
    [][(pc = "read" /\ readFails(reader, inFile)) => pc' # "read"]_vars

\* C13 (precision check at setup), as claimed: a job whose resolution is
\* outside 0..15 reads no record, calls the handler for none, leaves the
\* output path as it was, and ends with an error.
C13_PrecisionRejectedAtSetup ==
    ~ValidateResolution(cfg.Resolution) =>
        /\ dataReads = 0
        /\ sinkLog = <<>>
        /\ outExists = out0.exists
        /\ outFile = out0.content
        /\ pc = "done" => Failed

\* the positions in a sequence of output rows of the rows that end with the
\* label of the index column
LabelledRows(rows) == {i \in 1..Len(rows) : Last(rows[i]) = H3Column}

\* C14 (header emission): of the rows the Writer was given, the first and no
\* other is a header row when the job is header-bearing, and none is when it
\* is not; the rows after it are one per call of the record handler.
C14_HeaderOnceAndFirst ==
    (Streaming \/ Succeeded) =>
        /\ LabelledRows(Emitted) = IF cfg.HasHeaders THEN {1} ELSE {}
        /\ Len(Emitted) = HeaderCount + Len(sinkLog)
        /\ Succeeded => Emitted = outFile

\* a header-bearing job succeeded over MaxRows data rows that were all
\* written after the header
C14_Witness ==
    /\ Succeeded
    /\ cfg.HasHeaders
    /\ Len(outFile) = 1 + MaxRows
    /\ LabelledRows(outFile) = {1}

\* C15 (column-order preservation): every data row the Writer was given is
\* the row of fields the Reader took from the input, field for field and in
\* the same positions, followed by one more field, whether the record is
\* valid or not.
C15_OriginalFieldsPreserved ==
    (Streaming \/ Succeeded) =>
        \A k \in 1..Len(sinkLog) :
            LET row == Emitted[HeaderCount + k]
                src == inFile[sinkLog[k].pos].fields
            IN  /\ Len(row) = Len(src) + 1
                /\ \A i \in 1..Len(src) : row[i] = src[i]

\* a successful job wrote a valid row with a padded field and an invalid row
C15_Witness ==
    /\ Succeeded
    /\ \E j, k \in 1..Len(OutputData) :
          /\ OutputData[j][1] = "Edge" /\ OutputData[j][3] = VT \o "180 "
          /\ Last(OutputData[j]) # ""
          /\ OutputData[k][1] = "Unp" /\ OutputData[k][3] = "abc"
          /\ Last(OutputData[k]) = ""

\* C16 (header augmentation): the header row of a header-bearing job has one
\* entry more than the header of the input, begins with the entries of that
\* header as they are, and ends with h3_index.
C16_HeaderAugmented ==
    ((Streaming \/ Succeeded) /\ cfg.HasHeaders) =>
        LET h == Emitted[1]
            in0 == inFile[1].fields
        IN  /\ Len(h) = Len(in0) + 1
            /\ \A i \in 1..Len(in0) : h[i] = in0[i]
            /\ h[Len(h)] = "h3_index"

\* a successful job whose input header has a padded entry
C16_Witness ==
    /\ Succeeded
    /\ cfg.HasHeaders
    /\ outFile[1] = <<"id", "Lat", " LNG ", "h3_index">>
    /\ Len(outFile) > 1

\* Resolution by name as a comparison eq of a header entry with a name
\* defines it: the leftmost column that matches the specifier when there is
\* one; otherwise the leftmost column that matches the first alias, in list
\* order, that any column matches; -1 when there is none.
LeftmostMatch(eq(_, _), headers, name) ==
    LET hits == {i \in 1..Len(headers) : eq(headers[i], name)}
    IN  IF hits = {} THEN -1 ELSE Min(hits) - 1

ResolvedBy(eq(_, _), headers, specifier, aliases) ==
    LET bySpecifier == IF specifier = "" THEN -1
                       ELSE LeftmostMatch(eq, headers, specifier)
        matched == {k \in 1..Len(aliases) :
                       LeftmostMatch(eq, headers, aliases[k]) # -1}
    IN  IF bySpecifier # -1 THEN bySpecifier
        ELSE IF matched = {} THEN -1
        ELSE LeftmostMatch(eq, headers, aliases[Min(matched)])

\* equal but for the case of the letters
SameIgnoringCase(h, name) == ToLower(h) = ToLower(name)
\* the white space characters of ASCII: tab, line feed, vertical tab, form
\* feed, carriage return, space
WhiteSpace == {"\t", "\n", VT, "\f", "\r", " "}

\* s from its first to its last character that is no white space
Unpadded(s) ==
    LET inner == {i \in 1..Len(s) : charAt(s, i) \notin WhiteSpace}
    IN  IF inner = {} THEN ""
        ELSE SubSeq(s, CHOOSE i \in inner : \A j \in inner : i <= j,
                    CHOOSE i \in inner : \A j \in inner : i >= j)

\* equal but for the case of the letters and the white space around the two
SameIgnoringCaseAndPadding(h, name) ==
    ToLower(Unpadded(h)) = ToLower(Unpadded(name))

\* what NewReader did on a header-bearing input, against the resolution eq
\* defines
ResolvesBy(eq(_, _)) ==
    (pc = "done" /\ cfg.HasHeaders) =>
        LET lat == ResolvedBy(eq, inFile[1].fields, cfg.LatColumn,
                              <<"lat", "latitude", "y">>)
            lng == ResolvedBy(eq, inFile[1].fields, cfg.LngColumn,
                              <<"lng", "lon", "longitude", "x">>)
        IN  IF lat = -1 THEN ret.err = "latitude column not found"
            ELSE IF lng = -1 THEN ret.err = "longitude column not found"
            ELSE /\ ret.err = ""
                 /\ reader.latIndex = lat
                 /\ reader.lngIndex = lng

\* C17 (name and alias resolution), as claimed: header entries are compared
\* with the specifier and with the aliases as they are, but for case.
C17_ResolutionExactIgnoringCase == ResolvesBy(SameIgnoringCase)

\* C17, amended: header entries and the specifier are compared without
\* regard to case after the white space around them is trimmed; the
\* specifier first, leftmost column; then the aliases in list order, the
\* first alias that matches winning, leftmost column.
C17_ResolutionTrimmedIgnoringCase == ResolvesBy(SameIgnoringCaseAndPadding)

\* NewReader resolved the latitude by a specifier that differs in case from
\* a header entry behind a vertical tab, and the longitude, by alias, to a
\* header entry before a form feed
C17_Witness ==
    /\ pc = "done"
    /\ cfg.HasHeaders
    /\ ret.err = ""
    /\ inFile[1].fields = <<"id", VT \o "Lat", "LNG" \o "\f">>
    /\ cfg.LatColumn = "LAT" /\ reader.latIndex = 1
    /\ cfg.LngColumn = "abc" /\ reader.lngIndex = 2

RECURSIVE Zeros(_)
\* a string of k zeros
Zeros(k) == IF k = 0 THEN "" ELSE "0" \o Zeros(k - 1)

\* the positions a specifier of the inputs may stand for
Positions == 0..9

\* specifier is a decimal numeral of the natural number n: the digits of n,
\* behind any number of zeros and at most one sign, which is + unless n = 0
IsNumeralOf(specifier, n) ==
    \E sign \in {"", "+"} \cup (IF n = 0 THEN {"-"} ELSE {}),
       k \in 0..Len(specifier) :
        specifier = sign \o Zeros(k) \o ToString(n)

\* specifier parses as a non-negative integer
IsIndex(specifier) == \E n \in Positions : IsNumeralOf(specifier, n)

\* the characters of specifier behind its sign, when it starts with one
Unsigned(specifier) ==
    IF Len(specifier) > 0 /\ charAt(specifier, 1) \in {"+", "-"}
    THEN SubSeq(specifier, 2, Len(specifier))
    ELSE specifier

\* s is made of the characters of chars only
MadeOf(s, chars) == \A i \in 1..Len(s) : charAt(s, i) \in chars

Digits == {"0", "1", "2", "3", "4", "5", "6", "7", "8", "9"}

\* the place of a digit among the digits
Rank(c) == CHOOSE i \in 1..10 : charAt("0123456789", i) = c

\* of two strings of digits of one length, a stands for the larger number
Larger(a, b) ==
    \E i \in 1..Len(a) :
        /\ SubSeq(a, 1, i - 1) = SubSeq(b, 1, i - 1)
        /\ Rank(charAt(a, i)) > Rank(charAt(b, i))

\* the numeral of the largest int, 2^63 - 1
LargestInt == "9223372036854775807"

\* digits stand for a number above the largest int
TooLargeForInt(digits) ==
    \E k \in 0..Len(digits) :
        LET rest == SubSeq(digits, k + 1, Len(digits))
        IN  /\ SubSeq(digits, 1, k) = Zeros(k)
            /\ rest # "" /\ MadeOf(rest, Digits) /\ charAt(rest, 1) # "0"
            /\ \/ Len(rest) > Len(LargestInt)
               \/ Len(rest) = Len(LargestInt) /\ Larger(rest, LargestInt)

\* specifier does not parse as a non-negative integer: it is empty or not
\* numeric, or it is a negative number, or a number that is too large for
\* an int (more digits than the largest int has, or as many and a larger
\* first digit that differs)
IsNoIndex(specifier) ==
    LET body == Unsigned(specifier)
    IN  \/ body = ""
        \/ ~MadeOf(body, Digits)
        \/ /\ charAt(specifier, 1) = "-"
           /\ ~MadeOf(body, {"0"})
        \/ TooLargeForInt(body)

\* C18 (positional resolution): without a header a specifier that parses as
\* an integer >= 0 is the zero-based index of its column; with any other
\* specifier (empty, not numeric, negative, too large for an int) NewReader
\* fails with the column-not-found error of the first field whose specifier
\* is not one.
C18_PositionalResolution ==
    (pc = "done" /\ ~cfg.HasHeaders) =>
        /\ IsIndex(cfg.LatColumn) \/ IsNoIndex(cfg.LatColumn)
        /\ IsIndex(cfg.LngColumn) \/ IsNoIndex(cfg.LngColumn)
        /\ IF IsNoIndex(cfg.LatColumn)
           THEN ret.err = "latitude column not found"
           ELSE IF IsNoIndex(cfg.LngColumn)
           THEN ret.err = "longitude column not found"
           ELSE /\ ret.err = ""
                /\ IsNumeralOf(cfg.LatColumn, reader.latIndex)
                /\ IsNumeralOf(cfg.LngColumn, reader.lngIndex)

\* NewReader took the latitude from "+1" and failed on a longitude
\* specifier that is one above the largest int
C18_Witness ==
    /\ pc = "done"
    /\ ~cfg.HasHeaders
    /\ cfg.LatColumn = "+1"
    /\ cfg.LngColumn = "9223372036854775808"
    /\ ret.err = "longitude column not found"

\* the two coordinate fields of a row of fields, as ReadRecord parses them
ParsedLat(fields) == ParseFloat(TrimSpace(fields[reader.latIndex + 1]))
ParsedLng(fields) == ParseFloat(TrimSpace(fields[reader.lngIndex + 1]))

\* C19 (validity invariant), as claimed: every record passed to the record
\* handler with IsValid = true has a non-empty index, its coordinates having
\* parsed, passed the validator and been accepted by the generator.
C19_ValidImpliesIndexed ==
    \A k \in 1..Len(sinkLog) :
        LET rec == sinkLog[k].record
            src == inFile[sinkLog[k].pos].fields
        IN  rec.IsValid =>
                /\ ParsedLat(src).ok /\ ParsedLng(src).ok
                /\ ValidateCoordinates(ParsedLat(src).f, ParsedLng(src).f) = ""
                /\ Generate(ParsedLat(src).f, ParsedLng(src).f, cfg.Resolution).err = ""
                /\ rec.H3Index # ""

\* C19, amended: a record passed to the record handler with IsValid = true
\* has coordinates that parsed; they passed the validator when the
\* StreamingProcessor has one; and when it has a generator, generation
\* succeeded and the index is not empty. A StreamingProcessor without a
\* generator passes every record on without an index, and with IsValid =
\* true exactly when its coordinates parsed and passed the validator, when
\* the StreamingProcessor has one.
C19_ValidImpliesChecked ==
    \A k \in 1..Len(sinkLog) :
        LET rec == sinkLog[k].record
            src == inFile[sinkLog[k].pos].fields
        IN  /\ rec.IsValid =>
                /\ ParsedLat(src).ok /\ ParsedLng(src).ok
                /\ rec.Latitude = ParsedLat(src).f
                /\ rec.Longitude = ParsedLng(src).f
                /\ sp.validator =>
                      ValidateCoordinates(rec.Latitude, rec.Longitude) = ""
                /\ sp.h3Generator =>
                      /\ Generate(rec.Latitude, rec.Longitude, cfg.Resolution).err = ""
                      /\ rec.H3Index # ""
            /\ ~sp.h3Generator =>
                /\ rec.H3Index = ""
                /\ rec.IsValid <=>
                      /\ ParsedLat(src).ok /\ ParsedLng(src).ok
                      /\ sp.validator =>
                            ValidateCoordinates(ParsedLat(src).f,
                                                ParsedLng(src).f) = ""

\* a StreamingProcessor with a validator and no generator passed a record
\* on as valid, with no index, and one its validator rejected as not valid,
\* and the job ended
C19_Witness ==
    /\ pc = "done"
    /\ sp.validator /\ ~sp.h3Generator
    /\ \E j, k \in 1..Len(sinkLog) :
          /\ sinkLog[k].record.IsValid
          /\ sinkLog[k].record.H3Index = ""
          /\ sinkLog[k].record.OriginalData[1] = "Edge"
          /\ ~sinkLog[j].record.IsValid
          /\ sinkLog[j].record.OriginalData[1] = "Bad"

\* C20 (line numbering), as claimed: the LineNumber of every Record the
\* Reader produced is the 1-based position of its row in the input, the
\* header row counted or not.
C20_LineNumberIsPosition ==
    \A k \in 1..Len(sinkLog) :
        \/ sinkLog[k].record.LineNumber = sinkLog[k].pos
        \/ sinkLog[k].record.LineNumber = sinkLog[k].pos - HeaderCount

\* C22: Tally exposure. A ProcessResult is handed out only by a job that
\* succeeded, which it does only after the input stream is exhausted and the
\* output flushed; the result is then the tally of the record handler. A job
\* that fails, in setup, in the sink or in the flush, returns an error and
\* no result, so no partial tally is observable.
C22_NoPartialTally ==
    /\ ret.hasResult =>
          /\ Succeeded
          /\ reader.pos = Len(inFile)
          /\ ret.result = [result EXCEPT !.OutputFile = cfg.OutputFile]
          /\ ret.result.TotalRecords = Len(sinkLog)
    /\ ~ret.returned => (~ret.hasResult /\ ret.result = EmptyResult)
    /\ Failed => (~ret.hasResult /\ ret.result = EmptyResult)

\* a job whose sink failed after the handler had counted records: the
\* tally is not empty, and nothing of it is returned
C22_Witness ==
    /\ Failed
    /\ sinkFailed
    /\ result.TotalRecords >= 2
    /\ result.ValidRecords >= 1
    /\ ~ret.hasResult

\* the specifier is a name no entry of the header bears
Unknown(headers, specifier) ==
    /\ specifier # ""
    /\ LeftmostMatch(SameIgnoringCaseAndPadding, headers, specifier) = -1

\* C25 (unknown column names), as claimed: over an input with a header, a
\* job whose latitude and longitude specifiers both name columns that are
\* not in the header reads no data record, hands none to the sink and
\* returns an error.
C25_UnknownNamesFail ==
    (/\ cfg.HasHeaders
     /\ inExists
     /\ inFile # <<>>
     /\ ~inFile[1].err
     /\ Unknown(inFile[1].fields, cfg.LatColumn)
     /\ Unknown(inFile[1].fields, cfg.LngColumn))
    => /\ dataReads = 0
       /\ sinkLog = <<>>
       /\ ret.returned => ret.err # ""

\* the column a specifier stands for when it may be a name or an index:
\* the column it names, else the leftmost column under an alias, else the
\* position it is the decimal numeral of; -1 when all three fail
NameOrIndex(headers, specifier, aliases) ==
    LET byName == ResolvedBy(SameIgnoringCaseAndPadding, headers, specifier,
                             aliases)
        a == Atoi(specifier)
    IN  IF byName # -1 THEN byName
        ELSE IF a.ok /\ a.v >= 0 THEN a.v
        ELSE -1

\* C26 (name-or-index specifiers), as claimed: whether or not the input has
\* a header, a specifier that is a non-negative integer and names no column
\* resolves to the column at that position, and NewReader reports a column
\* as not found only when resolution by name, by alias and by position all
\* fail.
C26_NameOrIndex ==
    pc = "done" =>
        LET headers == IF cfg.HasHeaders THEN inFile[1].fields ELSE <<>>
            lat == NameOrIndex(headers, cfg.LatColumn, <<"lat", "latitude", "y">>)
            lng == NameOrIndex(headers, cfg.LngColumn,
                               <<"lng", "lon", "longitude", "x">>)
        IN  IF lat = -1 THEN ret.err = "latitude column not found"
            ELSE IF lng = -1 THEN ret.err = "longitude column not found"
            ELSE /\ ret.err = ""
                 /\ reader.latIndex = lat
                 /\ reader.lngIndex = lng

\* C30 (pre-validation agreement), as claimed: over the same header row and
\* configuration, with a header or without, ValidateColumns succeeds
\* exactly when NewReader resolves both columns.
C30_PrevalidationAgrees ==
    pc = "done" =>
        LET headers == IF cfg.HasHeaders THEN inFile[1].fields ELSE <<>>
        IN  (ValidateColumns(headers, cfg.HasHeaders, cfg.LatColumn,
                             cfg.LngColumn) = "")
            <=> (ret.err = "")

\* C27 (coordinate domain check), as claimed: for every pair of parsed
\* values, the non-finite ones included, ValidateCoordinates succeeds
\* exactly when -90 <= latitude <= 90 and -180 <= longitude <= 180.
C27_DomainCheck ==
    (pc = "done" /\ record.IsValid) =>
        ((ret.err = "") <=> (/\ Within(record.Latitude, -90, 90)
                             /\ Within(record.Longitude, -180, 180)))

\* C24 (delimiter option), as claimed: the delimiter of the job
\* configuration is the one the Reader splits a line on and the one the
\* Writer joins the fields of the output line with. A line that, split on
\* that delimiter, does not reach both coordinate columns is skipped and
\* nothing is written for it.
C24_DelimiterHonoured ==
    pc = "done" =>
        LET row == splitFields(text.in, cfg.Delimiter)
        IN  IF sufficientColumns(row, lineColumns.latIndex, lineColumns.lngIndex)
            THEN /\ text.fields = row
                 /\ text.out = joinFields(Append(row, <<>>), cfg.Delimiter)
            ELSE /\ text.fields = <<>>
                 /\ text.out = <<>>

\* C28 (input preservation), as claimed: when the job has returned, the
\* file at the input path holds what it held before the job, also when the
\* output path is the input path and overwriting is permitted.
C28_InputPreserved ==
    pc = "done" => (outExists /\ outFile = out0.content)

\* C29 (handle release): no handle the job opened on its input is ever
\* closed twice, and when the job has returned, on whichever path, each of
\* them was closed exactly once: the one of the configuration check, the
\* one of the pre-validation, the one of the processing stage, and the one
\* of a NewReader that failed on the header or on the column resolution.
\* While records are streamed the handle of the processing stage is open.
C29_HandlesReleasedOnce ==
    /\ \A h \in 1..Len(handles) : handles[h] <= 1
    /\ ret.returned => \A h \in 1..Len(handles) : handles[h] = 1
    /\ Streaming => (Len(handles) = 3 /\ handles[3] = 0)

\* a job that ended in the sink after it had opened the input three times
C29_Witness ==
    /\ Failed
    /\ sinkFailed
    /\ handles = <<1, 1, 1>>

\* a job that ended in a NewReader which failed on the column resolution
\* and closed its file
C29_WitnessConstructor ==
    /\ Failed
    /\ ret.cause \in ResolutionErrors
    /\ rowsRead = 1
    /\ handles = <<1, 1>>

\* C21 (verbosity independence): two runs of the job over the same input and
\* configuration, one verbose and one not, whose writes meet the same fate,
\* make the same reads and the same calls of the sink with the same records,
\* end with the same tallies and output and return the same error or
\* result; diagnostic messages are printed by the verbose run alone.
C21_VerbosityIndependent ==
    (replay.run = 2 /\ pc = "done") =>
        /\ Outcome = replay.first[1].outcome
        /\ (IF cfg.Verbose THEN replay.first[1].warnings ELSE Warnings) = 0
        /\ (IF cfg.Verbose THEN Warnings ELSE replay.first[1].warnings)
           = counters.errorCount

\* both runs handed two records to the sink, one of them invalid, and the
\* verbose run printed its warning
C21_Witness ==
    /\ replay.run = 2
    /\ Succeeded
    /\ Len(sinkLog) = 2
    /\ result.InvalidRecords = 1
    /\ result.ValidRecords = 1
    /\ ~cfg.Verbose
    /\ replay.first[1].warnings >= 1
    /\ Warnings = 0

\* what a job that returned leaves to be seen: the error or the result with
\* its tally, and the output file
Observed(job) ==
    [ret |-> job.ret, outExists |-> job.outExists, outFile |-> job.outFile]

\* the job as it was before it was started
Fresh(job) ==
    NewJob(job.cfg, job.inFile, job.existed)

\* C23 (job independence): of two jobs with their own input and output
\* paths, run side by side in whatever interleaving, each one that has
\* returned succeeded or failed, left the output file and returned the tally
\* it would have run alone.
C23_JobsIndependent ==
    \A j \in DOMAIN jobs :
        jobs[j].pc = "done" =>
            Observed(jobs[j]) = Observed(runAlone(Fresh(jobs[j]), {}))

\* both jobs returned a tally of their own, and the scratch file of one was
\* removed under it by the other
C23_Witness ==
    /\ jobs # <<>>
    /\ \A j \in JobIds : jobs[j].pc = "done" /\ jobs[j].ret.err = ""
    /\ jobs[1].ret.result.ValidRecords = 1
    /\ jobs[1].ret.result.TotalRecords = 2
    /\ jobs[2].ret.result.TotalRecords = 1
    /\ jobs[2].warnings = 1
    /\ dir = {}

====
